---- MODULE Spec2Model ----
(***************************************************************************)
(* Model of the backtest engine of src/backtester.py (class Backtester).    *)
(*                                                                         *)
(* Numbers.  The engine computes in floats; the model computes in          *)
(* integers.  A funding rate or fee rate r of the code is the integer      *)
(* r * RateScale (RateScale = 10000, so funding_threshold 0.0001 is 1 and  *)
(* trading_fee 0.0002 is 2).  Money, prices and sizes are integers in      *)
(* their own units; a product with a rate is divided by RateScale.  With   *)
(* max_position_size_usd = 10000 and mark prices 1 and 2 every amount the  *)
(* engine computes for a position of the full size is a whole number, so   *)
(* no rounding takes place (NoRounding below).                             *)
(*                                                                         *)
(* Control.  run() is split at its loop iterations: one action per         *)
(* processed key of the update loop, per opportunity of the entry loop,    *)
(* per equity sample and per key of the final close loop.  The timeline    *)
(* (data_by_time) is read bucket by bucket: BeginBucket draws the next     *)
(* bucket's market_data, which run() built before the loop.                *)
(*                                                                         *)
(* Inputs.  Three families of timelines are drawn: "wide" ones of up to    *)
(* MaxBuckets buckets over both assets, every rate, price and insertion    *)
(* order; "long" ones of up to MaxLongBuckets buckets in which asset A is  *)
(* followed alone (a bucket without A holds a point of B without a         *)
(* signal), so that a position lives through several updates, with the     *)
(* rate -funding_threshold among the rates; and "spike" ones of up to      *)
(* MaxSpikeBuckets buckets of asset A whose mark price can jump so far     *)
(* that the close fee exceeds the capital.  After such a jump the amounts  *)
(* are no longer whole numbers and the model rounds them toward zero.      *)
(*                                                                         *)
(* Besides run() as a sequence of steps (Spec), the module holds run() as  *)
(* one function of the input map (run, used by SpecReplay) and the         *)
(* engine's methods called one by one by a caller (SpecLedger), run() on   *)
(* three-bucket histories of one asset (SpecScenario, and SpecIngest with  *)
(* mark prices that are not positive), and the live strategy of            *)
(* src/strategy.py with its position manager (SpecLive).                   *)
(***************************************************************************)
EXTENDS Integers, Sequences, FiniteSets, TLC

VARIABLES
    pc,             \* position of run(): start, update, enter, next, final, done
    timeline,       \* input: the family the timeline is drawn from: wide, long or spike
    historical_data,\* input of SpecReplay: the map asset -> points, in iteration order
    replay,         \* SpecReplay: what run() returned for the map and for the map reversed
    initial_capital,\* self.initial_capital
    capital,        \* self.capital
    positions,      \* self.positions: dict asset -> BacktestPosition, in insertion order
    trades,         \* self.trades
    equity_curve,   \* self.equity_curve
    ts,             \* loop variable ts of run(): the current bucket timestamp
    market_data,    \* loop variable market_data of run(): dict asset -> point, in insertion order
    todo,           \* the rest of list(self.positions.keys()) still to be visited
    opportunities,  \* the sorted opportunities list of _process_timestamp
    oi,             \* index of the next opportunity to visit
    result,         \* the BacktestResult returned by run()
    closed,         \* history: the position records _close_position deleted, as they were at deletion
    fundingLog,     \* history: every funding amount _update_position applied
    feesPaid,       \* history: sum of the open and close fees charged so far
    startPositions, \* history: self.positions as it was when the current bucket began
    dry_run,        \* FundingArbStrategy.dry_run
    iterations,     \* the number of strategy iterations begun
    manager_positions, \* PositionManager.positions: dict asset -> Position, in insertion order
    client_calls,   \* history: the order-placing and leverage-changing client operations invoked
    entry_log       \* history: the opportunities of the last iteration that reached the entry step, and what open_position met and returned

vars == <<pc, timeline, historical_data, replay, initial_capital, capital, positions, trades, equity_curve, ts,
          market_data, todo, opportunities, oi, result, closed, fundingLog,
          feesPaid, startPositions, dry_run, iterations, manager_positions,
          client_calls, entry_log>>

\* the state of the backtest engine and of its callers
engineVars == <<timeline, historical_data, replay, initial_capital, capital, positions, trades,
                equity_curve, ts, market_data, todo, opportunities, oi, result, closed,
                fundingLog, feesPaid, startPositions>>

\* the state of the live strategy
liveVars == <<dry_run, iterations, manager_positions, client_calls, entry_log>>

\* no live strategy runs beside a backtest
NoStrategy ==
    /\ dry_run = FALSE
    /\ iterations = 0
    /\ manager_positions = <<>>
    /\ client_calls = <<>>
    /\ entry_log = <<>>

---------------------------------------------------------------------------
(* Bounds of the model and the inputs drawn.                               *)

MaxBuckets == 2

MaxLongBuckets == 4

MaxSpikeBuckets == 3

Assets == {"A", "B"}

\* funding rates of the input points, in units of 1/RateScale
Rates == {-3, 1, 2}

\* mark prices of the input points
Prices == {1, 2}

\* funding rates of a long timeline: with the negative threshold itself
LongRates == Rates \cup {-1}

\* funding rates and mark prices of a spike timeline: a close at the high price
\* after an entry at the low one costs a fee above the initial capital
SpikeRates == {-3, 2}

SpikePrices == {1, 10000}

InitialCapitals == {25000, 25004}

---------------------------------------------------------------------------
(* Configuration and constants of the code.                                *)

RateScale == 10000

funding_threshold == 1

trading_fee == 2

max_position_size_usd == 10000

\* Optional[...] = None of exit_time and exit_price
None == -1

LONG_SPOT_SHORT_PERP == "long_spot_short_perp"

SHORT_SPOT_LONG_PERP == "short_spot_long_perp"

NO_SIGNAL == "no_signal"

---------------------------------------------------------------------------
(* Arithmetic helpers.                                                     *)

Abs(x) == IF x < 0 THEN -x ELSE x

Max(a, b) == IF a >= b THEN a ELSE b

Min(a, b) == IF a <= b THEN a ELSE b

\* int(a / b) of Python: the quotient truncated toward zero
TruncDiv(a, b) ==
    IF (a >= 0) = (b > 0) THEN Abs(a) \div Abs(b) ELSE -(Abs(a) \div Abs(b))

\* x * rate for a rate held in units of 1/RateScale
TimesRate(x, r) == TruncDiv(x * r, RateScale)

RECURSIVE SumSeq(_)
SumSeq(s) == IF s = <<>> THEN 0 ELSE Head(s) + SumSeq(Tail(s))

RECURSIVE GCD(_, _)
GCD(a, b) == IF b = 0 THEN a ELSE GCD(b, a % b)

\* the quotient n / d of two amounts (d # 0), kept exact: a fraction in lowest
\* terms with a positive denominator
Frac(n, d) ==
    LET g == GCD(Abs(n), Abs(d))
        sign == IF d < 0 THEN -1 ELSE 1
    IN  [num |-> sign * (n \div g), den |-> sign * (d \div g)]

RECURSIVE LessQuot(_, _, _, _)
\* a / b < c / d for b, d > 0, by continued fractions (no product is formed)
LessQuot(a, b, c, d) ==
    IF a \div b # c \div d THEN a \div b < c \div d
    ELSE IF c % d = 0 THEN FALSE
    ELSE IF a % b = 0 THEN TRUE
    ELSE LessQuot(d, c % d, b, a % b)

\* x < y for two fractions
FracLess(x, y) == LessQuot(x.num, x.den, y.num, y.den)

---------------------------------------------------------------------------
(* Dict helpers: a dict is a sequence of records with distinct .asset, in  *)
(* insertion order.                                                        *)

Keys(d) == [i \in 1..Len(d) |-> d[i].asset]

KeySet(d) == {d[i].asset : i \in 1..Len(d)}

Has(d, asset) == asset \in KeySet(d)

Get(d, asset) == d[CHOOSE i \in 1..Len(d) : d[i].asset = asset]

\* d[asset] = rec: replaces the value in place, or appends a new key
DictSet(d, rec) ==
    IF Has(d, rec.asset)
    THEN [i \in 1..Len(d) |-> IF d[i].asset = rec.asset THEN rec ELSE d[i]]
    ELSE Append(d, rec)

\* del d[asset]
DictDel(d, asset) == SelectSeq(d, LAMBDA r : r.asset # asset)

---------------------------------------------------------------------------
(* The engine's mutable fields, threaded through its methods as a record:  *)
(* each method below maps the fields before the call to the fields after.  *)

Self ==
    [initial_capital |-> initial_capital, capital |-> capital,
     positions |-> positions, trades |-> trades, equity_curve |-> equity_curve,
     closed |-> closed, fundingLog |-> fundingLog, feesPaid |-> feesPaid]

SetSelf(s) ==
    /\ capital' = s.capital
    /\ positions' = s.positions
    /\ trades' = s.trades
    /\ closed' = s.closed
    /\ fundingLog' = s.fundingLog
    /\ feesPaid' = s.feesPaid

\* _get_signal with the two thresholds themselves giving a signal
get_signal_inclusive(funding_rate) ==
    IF funding_rate >= funding_threshold THEN LONG_SPOT_SHORT_PERP
    ELSE IF funding_rate <= -funding_threshold THEN SHORT_SPOT_LONG_PERP
    ELSE NO_SIGNAL

\* Backtester._get_signal
get_signal(funding_rate) ==
    IF funding_rate > funding_threshold THEN LONG_SPOT_SHORT_PERP
    ELSE IF funding_rate < -funding_threshold THEN SHORT_SPOT_LONG_PERP
    ELSE NO_SIGNAL

\* max_positions of _can_open_position: int((capital * 0.8) / max_position_size_usd)
max_positions(cap) == TruncDiv(cap * 4, 5 * max_position_size_usd)

\* _can_open_position with the comparison off by one
can_open_position_le(s) == Len(s.positions) <= Max(1, max_positions(s.capital))

\* Backtester._can_open_position
can_open_position(s) == Len(s.positions) < Max(1, max_positions(s.capital))

\* size_usd of _open_position: min(max_position_size_usd, capital * 0.8)
\* _open_position sized by the position cap alone
open_size_usd_uncapped(cap) == max_position_size_usd

open_size_usd(cap) == Min(max_position_size_usd, TruncDiv(cap * 4, 5))

\* the open fee charged on one leg only
open_fees_one_leg(size_usd) == TruncDiv(size_usd * trading_fee, RateScale)

\* fees of _open_position: size_usd * trading_fee * 2
open_fees(size_usd) == TruncDiv(size_usd * trading_fee * 2, RateScale)

\* the BacktestPosition of _open_position credited at once with the funding
\* of the bucket it is opened in
new_position_funded(asset, timestamp, data_point, signal, size) ==
    [asset |-> asset,
     entry_time |-> timestamp,
     entry_price |-> data_point.mark_price,
     size |-> size,
     signal |-> signal,
     spot_size |-> IF signal = LONG_SPOT_SHORT_PERP THEN size ELSE -size,
     perp_size |-> IF signal = LONG_SPOT_SHORT_PERP THEN -size ELSE size,
     exit_time |-> None,
     exit_price |-> None,
     funding_collected |-> TimesRate(Abs(size) * data_point.mark_price,
                                     Abs(data_point.funding_rate)),
     pnl |-> 0]

\* the BacktestPosition _open_position constructs
new_position(asset, timestamp, data_point, signal, size) ==
    [asset |-> asset,
     entry_time |-> timestamp,
     entry_price |-> data_point.mark_price,
     size |-> size,
     signal |-> signal,
     spot_size |-> IF signal = LONG_SPOT_SHORT_PERP THEN size ELSE -size,
     perp_size |-> IF signal = LONG_SPOT_SHORT_PERP THEN -size ELSE size,
     exit_time |-> None,
     exit_price |-> None,
     funding_collected |-> 0,
     pnl |-> 0]

\* Backtester._open_position
open_position(s, asset, timestamp, data_point, signal) ==
    LET size_usd == open_size_usd(s.capital)
        size == TruncDiv(size_usd, data_point.mark_price)
        fees == open_fees(size_usd)
    IN  [s EXCEPT
            !.capital = s.capital - fees,
            !.feesPaid = s.feesPaid + fees,
            !.positions = DictSet(s.positions,
                new_position(asset, timestamp, data_point, signal, size)),
            !.trades = Append(s.trades,
                [timestamp |-> timestamp, asset |-> asset, action |-> "open",
                 price |-> data_point.mark_price, size |-> size,
                 signal |-> signal])]

\* _calculate_funding_pnl with the short perp paying when the rate is negative
calculate_funding_pnl_symmetric(position, funding_rate) ==
    LET position_value == Abs(position.perp_size) * position.entry_price
    IN  IF position.signal = LONG_SPOT_SHORT_PERP
        THEN TimesRate(position_value, funding_rate)
        ELSE TimesRate(-position_value, funding_rate)

\* Backtester._calculate_funding_pnl
calculate_funding_pnl(position, funding_rate) ==
    LET position_value == Abs(position.perp_size) * position.entry_price
    IN  IF position.signal = LONG_SPOT_SHORT_PERP
        THEN (IF funding_rate > 0 THEN TimesRate(position_value, funding_rate) ELSE 0)
        ELSE (IF funding_rate > 0
              THEN TimesRate(-position_value, funding_rate)
              ELSE TimesRate(position_value, Abs(funding_rate)))

\* price_pnl of _close_position and unrealized_pnl of _calculate_equity
price_pnl(position, price) ==
    LET price_change == price - position.entry_price
    IN  position.spot_size * price_change + position.perp_size * price_change

\* the close fee charged on the entry price instead of the exit price
close_fees_at_entry(position, price) ==
    TruncDiv(Abs(position.size) * position.entry_price * trading_fee * 2, RateScale)

\* fees of _close_position: abs(size) * price * trading_fee * 2
close_fees(position, price) ==
    TruncDiv(Abs(position.size) * price * trading_fee * 2, RateScale)

\* the closed record with the fee of the open charged to its pnl as well
closed_position_net_of_open(position, timestamp, price) ==
    [position EXCEPT
        !.pnl = position.funding_collected + price_pnl(position, price)
                - close_fees(position, price)
                - open_fees(Abs(position.size) * position.entry_price),
        !.exit_time = timestamp,
        !.exit_price = price]

\* the position record as _close_position leaves it before deleting it
closed_position(position, timestamp, price) ==
    [position EXCEPT
        !.pnl = position.funding_collected + price_pnl(position, price)
                - close_fees(position, price),
        !.exit_time = timestamp,
        !.exit_price = price]

\* _close_position without its del self.positions[asset]
remove_closed_forgotten(d, asset) == d

\* what _close_position does to self.positions once the record is closed
remove_closed(d, asset) == DictDel(d, asset)

\* Backtester._close_position
close_position(s, asset, timestamp, price) ==
    IF ~Has(s.positions, asset) THEN s
    ELSE
    LET position == Get(s.positions, asset)
        done == closed_position(position, timestamp, price)
    IN  [s EXCEPT
            !.capital = s.capital + done.pnl,
            !.feesPaid = s.feesPaid + close_fees(position, price),
            !.trades = Append(s.trades,
                [timestamp |-> timestamp, asset |-> asset, action |-> "close",
                 price |-> price, size |-> position.size, signal |-> "None"]),
            !.closed = Append(s.closed, done),
            !.positions = remove_closed(DictSet(s.positions, done), asset)]

\* should_exit without the test for a flipped signal
should_exit_no_signal_only(position, funding_rate) ==
    get_signal(funding_rate) = NO_SIGNAL

\* should_exit of _update_position
should_exit(position, funding_rate) ==
    LET new_signal == get_signal(funding_rate)
    IN  new_signal # position.signal \/ new_signal = NO_SIGNAL

\* _update_position crediting the funding to the position but not to capital
update_position_uncredited(s, asset, timestamp, data_point) ==
    LET position == Get(s.positions, asset)
        funding_pnl == calculate_funding_pnl(position, data_point.funding_rate)
        funded == [position EXCEPT
                      !.funding_collected = position.funding_collected + funding_pnl]
        s1 == [s EXCEPT
                  !.positions = DictSet(s.positions, funded),
                  !.fundingLog = Append(s.fundingLog,
                      [timestamp |-> timestamp, asset |-> asset,
                       entry_time |-> position.entry_time, amount |-> funding_pnl])]
    IN  IF should_exit(funded, data_point.funding_rate)
        THEN close_position(s1, asset, timestamp, data_point.mark_price)
        ELSE s1

\* _update_position checking the exit before it collects the funding: a
\* position that exits is closed without this bucket's funding
update_position_exit_first(s, asset, timestamp, data_point) ==
    LET position == Get(s.positions, asset)
        funding_pnl == calculate_funding_pnl(position, data_point.funding_rate)
        funded == [position EXCEPT
                      !.funding_collected = position.funding_collected + funding_pnl]
    IN  IF should_exit(position, data_point.funding_rate)
        THEN close_position(s, asset, timestamp, data_point.mark_price)
        ELSE [s EXCEPT
                  !.positions = DictSet(s.positions, funded),
                  !.capital = s.capital + funding_pnl,
                  !.fundingLog = Append(s.fundingLog,
                      [timestamp |-> timestamp, asset |-> asset,
                       entry_time |-> position.entry_time, amount |-> funding_pnl])]

\* Backtester._update_position
update_position(s, asset, timestamp, data_point) ==
    LET position == Get(s.positions, asset)
        funding_pnl == calculate_funding_pnl(position, data_point.funding_rate)
        funded == [position EXCEPT
                      !.funding_collected = position.funding_collected + funding_pnl]
        s1 == [s EXCEPT
                  !.positions = DictSet(s.positions, funded),
                  !.capital = s.capital + funding_pnl,
                  !.fundingLog = Append(s.fundingLog,
                      [timestamp |-> timestamp, asset |-> asset,
                       entry_time |-> position.entry_time, amount |-> funding_pnl])]
    IN  IF should_exit(funded, data_point.funding_rate)
        THEN close_position(s1, asset, timestamp, data_point.mark_price)
        ELSE s1

\* Backtester._calculate_equity
calculate_equity(s, md) ==
    s.capital
    + SumSeq([i \in 1..Len(s.positions) |->
        IF Has(md, s.positions[i].asset)
        THEN price_pnl(s.positions[i], Get(md, s.positions[i].asset).mark_price)
             + s.positions[i].funding_collected
        ELSE 0])

---------------------------------------------------------------------------
(* The entry phase's candidate list.                                       *)

\* the scan without its test for a position already held
scan_opportunities_held_too(d, md) ==
    LET cand == SelectSeq(md, LAMBDA p : get_signal(p.funding_rate) # NO_SIGNAL)
    IN  [i \in 1..Len(cand) |->
            [asset |-> cand[i].asset, data_point |-> cand[i],
             signal |-> get_signal(cand[i].funding_rate)]]

\* the scan leaving out as well the assets that held a position when the
\* bucket began
scan_opportunities_not_held_at_start(d, md) ==
    LET cand == SelectSeq(md, LAMBDA p :
                    /\ ~Has(d, p.asset)
                    /\ ~Has(startPositions, p.asset)
                    /\ get_signal(p.funding_rate) # NO_SIGNAL)
    IN  [i \in 1..Len(cand) |->
            [asset |-> cand[i].asset, data_point |-> cand[i],
             signal |-> get_signal(cand[i].funding_rate)]]

\* the opportunities list before the sort: market_data in dict order, without
\* the assets that hold a position and the points without a signal
scan_opportunities(d, md) ==
    LET cand == SelectSeq(md, LAMBDA p :
                    ~Has(d, p.asset) /\ get_signal(p.funding_rate) # NO_SIGNAL)
    IN  [i \in 1..Len(cand) |->
            [asset |-> cand[i].asset, data_point |-> cand[i],
             signal |-> get_signal(cand[i].funding_rate)]]

\* the sort key of opportunities.sort: abs(x[1].funding_rate)
sort_key(x) == Abs(x.data_point.funding_rate)

\* where list.sort(reverse=True) puts x among the already sorted t: after
\* every element whose key is not smaller (the sort is stable)
insert_sorted(x, t) ==
    LET k == Cardinality({i \in 1..Len(t) : sort_key(t[i]) >= sort_key(x)})
    IN  SubSeq(t, 1, k) \o <<x>> \o SubSeq(t, k + 1, Len(t))

\* the opportunities left in scan order, as without the sort
sort_opportunities_omitted(l) == l

RECURSIVE sort_opportunities(_)
\* opportunities.sort(key=abs(funding_rate), reverse=True)
sort_opportunities(l) ==
    IF l = <<>> THEN <<>>
    ELSE insert_sorted(l[Len(l)], sort_opportunities(SubSeq(l, 1, Len(l) - 1)))

---------------------------------------------------------------------------
(* Result assembly.                                                        *)

NoResult == [none |-> TRUE]

NoReplay == [none |-> TRUE]

\* closed_positions of _create_result
closed_positions(d) == SelectSeq(d, LAMBDA p : p.exit_time # None)

\* the float 0.0 of the statistics
Zero == [kind |-> "value", num |-> 0, den |-> 1]

\* a division by zero met while a statistic was computed; run() raises it, the
\* model records it in the field of the result that was being computed
ZeroDivisionError == [kind |-> "ZeroDivisionError"]

\* a quotient of the statistics as a value
Value(n, d) == [kind |-> "value", num |-> Frac(n, d).num, den |-> Frac(n, d).den]

RECURSIVE drawdown_loop_fixed_peak(_, _, _, _)
\* the loop of _calculate_max_drawdown measuring every decline from the first
\* sample instead of the running peak
drawdown_loop_fixed_peak(curve, i, peak, max_dd) ==
    IF i > Len(curve) THEN max_dd
    ELSE IF peak = 0 THEN ZeroDivisionError
    ELSE LET dd == Value(peak - curve[i][2], peak)
         IN  drawdown_loop_fixed_peak(curve, i + 1, peak,
                                      IF FracLess(max_dd, dd) THEN dd ELSE max_dd)

RECURSIVE drawdown_loop(_, _, _, _)
\* the loop of _calculate_max_drawdown from sample i on
drawdown_loop(curve, i, peak, max_dd) ==
    IF i > Len(curve) THEN max_dd
    ELSE LET equity == curve[i][2]
             new_peak == IF equity > peak THEN equity ELSE peak
         IN  IF new_peak = 0 THEN ZeroDivisionError
             ELSE LET dd == Value(new_peak - equity, new_peak)
                  IN  drawdown_loop(curve, i + 1, new_peak,
                                    IF FracLess(max_dd, dd) THEN dd ELSE max_dd)

\* Backtester._calculate_max_drawdown
calculate_max_drawdown(curve) ==
    IF curve = <<>> THEN Zero
    ELSE drawdown_loop(curve, 1, curve[1][2], Zero)

\* the returns list of _calculate_sharpe_ratio: (curr - prev) / prev per period
period_returns(curve) ==
    [i \in 1..(Len(curve) - 1) |->
        Frac(curve[i + 1][2] - curve[i][2], curve[i][2])]

\* _calculate_sharpe_ratio without its guards on too few samples or returns
calculate_sharpe_ratio_unguarded(curve) ==
    [kind |-> "ratio", returns |-> period_returns(curve)]

\* Backtester._calculate_sharpe_ratio: 0.0 on fewer than two samples, on a
\* single return and on returns without spread; otherwise the ratio of the
\* mean to the standard deviation of the returns, kept as the returns it is
\* computed from
calculate_sharpe_ratio(curve) ==
    IF Len(curve) < 2 THEN Zero
    ELSE IF \E i \in 1..(Len(curve) - 1) : curve[i][2] = 0 THEN ZeroDivisionError
    ELSE LET returns == period_returns(curve)
         IN  IF Len(returns) <= 1 THEN Zero
             ELSE IF \A i \in 1..Len(returns) : returns[i] = returns[1] THEN Zero
             ELSE [kind |-> "ratio", returns |-> returns]

\* Backtester._create_result
create_result(s, start_time, end_time) ==
    LET cp == closed_positions(s.positions)
        num_winning == Len(SelectSeq(cp, LAMBDA p : p.pnl > 0))
        num_losing == Len(SelectSeq(cp, LAMBDA p : p.pnl < 0))
    IN  [start_time |-> start_time,
         end_time |-> end_time,
         initial_capital |-> s.initial_capital,
         final_capital |-> s.capital,
         total_return |-> s.capital - s.initial_capital,
         funding_collected |-> SumSeq([i \in 1..Len(cp) |-> cp[i].funding_collected]),
         num_trades |-> Len(SelectSeq(s.trades, LAMBDA t : t.action = "open")),
         num_winning_trades |-> num_winning,
         num_losing_trades |-> num_losing,
         \* win_rate = num_winning / max(1, len(closed_positions)), kept as a fraction
         win_rate |-> <<num_winning, Max(1, Len(cp))>>,
         max_drawdown |-> calculate_max_drawdown(s.equity_curve),
         sharpe_ratio |-> calculate_sharpe_ratio(s.equity_curve),
         positions |-> cp,
         trades |-> s.trades,
         equity_curve |-> s.equity_curve]

---------------------------------------------------------------------------
(* The input: the buckets run() can build.  A bucket holds one point per   *)
(* asset present, in the order the points were inserted.                   *)

Orderings(S) ==
    {o \in [1..Cardinality(S) -> S] : \A i, j \in 1..Cardinality(S) : o[i] = o[j] => i = j}

Buckets ==
    UNION {
        {[i \in 1..Len(o) |->
            [asset |-> o[i], funding_rate |-> f[o[i]][1], mark_price |-> f[o[i]][2]]]
         : f \in [S -> Rates \X Prices], o \in Orderings(S)}
        : S \in (SUBSET Assets) \ {{}}}

\* the buckets of a long timeline: one point of A, or A absent and a point of
\* B at the threshold (no signal)
LongBuckets ==
    {<<[asset |-> "A", funding_rate |-> r, mark_price |-> p]>> : r \in LongRates, p \in Prices}
    \cup {<<[asset |-> "B", funding_rate |-> funding_threshold, mark_price |-> 1]>>}

\* the buckets of a spike timeline: one point of A
SpikeBuckets ==
    {<<[asset |-> "A", funding_rate |-> r, mark_price |-> p]>> :
        r \in SpikeRates, p \in SpikePrices}

BucketsOf(t) ==
    IF t = "wide" THEN Buckets ELSE IF t = "long" THEN LongBuckets ELSE SpikeBuckets

LengthOf(t) ==
    IF t = "wide" THEN MaxBuckets
    ELSE IF t = "long" THEN MaxLongBuckets ELSE MaxSpikeBuckets

---------------------------------------------------------------------------
(* Initial state and actions.                                              *)

Init ==
    /\ pc = "start"
    /\ NoStrategy
    /\ timeline \in {"wide", "long", "spike"}
    /\ historical_data = <<>>
    /\ replay = NoReplay
    /\ initial_capital \in InitialCapitals
    /\ capital = initial_capital
    /\ positions = <<>>
    /\ trades = <<>>
    /\ equity_curve = <<>>
    /\ ts = 0
    /\ market_data = <<>>
    /\ todo = <<>>
    /\ opportunities = <<>>
    /\ oi = 1
    /\ result = NoResult
    /\ closed = <<>>
    /\ fundingLog = <<>>
    /\ feesPaid = 0
    /\ startPositions = <<>>

\* run() on input without any point: the early return
RunEmpty ==
    /\ pc = "start"
    /\ UNCHANGED liveVars
    /\ result' = create_result(Self, 0, 0)
    /\ pc' = "done"
    /\ UNCHANGED <<timeline, historical_data, replay, initial_capital, capital, positions, trades, equity_curve, ts,
                   market_data, todo, opportunities, oi, closed, fundingLog,
                   feesPaid, startPositions>>

\* the simulation loop of run() takes the next bucket and _process_timestamp
\* snapshots the keys of self.positions
BeginBucket ==
    /\ pc \in {"start", "next"}
    /\ UNCHANGED liveVars
    /\ ts < LengthOf(timeline)
    /\ \E md \in BucketsOf(timeline) : market_data' = md
    /\ ts' = ts + 1
    /\ todo' = Keys(positions)
    /\ startPositions' = positions
    /\ pc' = "update"
    /\ UNCHANGED <<timeline, historical_data, replay, initial_capital, capital, positions, trades, equity_curve,
                   opportunities, oi, result, closed, fundingLog, feesPaid>>

\* the update loop closing, at its entry price, a position whose asset has
\* no point in this bucket
UpdateSkip_closing ==
    /\ pc = "update"
    /\ UNCHANGED liveVars
    /\ todo # <<>>
    /\ ~Has(market_data, Head(todo))
    /\ SetSelf(close_position(Self, Head(todo), ts,
                              Get(positions, Head(todo)).entry_price))
    /\ todo' = Tail(todo)
    /\ UNCHANGED <<pc, timeline, historical_data, replay, initial_capital, equity_curve, ts, market_data,
                   opportunities, oi, result, startPositions>>

\* update loop, an asset without a point in this bucket: continue
UpdateSkip ==
    /\ pc = "update"
    /\ UNCHANGED liveVars
    /\ todo # <<>>
    /\ ~Has(market_data, Head(todo))
    /\ todo' = Tail(todo)
    /\ UNCHANGED <<pc, timeline, historical_data, replay, initial_capital, capital, positions, trades, equity_curve, ts,
                   market_data, opportunities, oi, result, closed, fundingLog,
                   feesPaid, startPositions>>

\* update loop, an asset with a point in this bucket: _update_position
UpdateExisting ==
    /\ pc = "update"
    /\ UNCHANGED liveVars
    /\ todo # <<>>
    /\ Has(market_data, Head(todo))
    /\ SetSelf(update_position(Self, Head(todo), ts, Get(market_data, Head(todo))))
    /\ todo' = Tail(todo)
    /\ UNCHANGED <<pc, timeline, historical_data, replay, initial_capital, equity_curve, ts, market_data,
                   opportunities, oi, result, startPositions>>

\* the opportunities are collected and sorted
FindOpportunities ==
    /\ pc = "update"
    /\ UNCHANGED liveVars
    /\ todo = <<>>
    /\ opportunities' = sort_opportunities(scan_opportunities(positions, market_data))
    /\ oi' = 1
    /\ pc' = "enter"
    /\ UNCHANGED <<timeline, historical_data, replay, initial_capital, capital, positions, trades, equity_curve, ts,
                   market_data, todo, result, closed, fundingLog, feesPaid,
                   startPositions>>

\* entry loop, one opportunity: opened if _can_open_position
EnterStep ==
    /\ pc = "enter"
    /\ UNCHANGED liveVars
    /\ oi <= Len(opportunities)
    /\ LET o == opportunities[oi]
       IN  SetSelf(IF can_open_position(Self)
                   THEN open_position(Self, o.asset, ts, o.data_point, o.signal)
                   ELSE Self)
    /\ oi' = oi + 1
    /\ UNCHANGED <<pc, timeline, historical_data, replay, initial_capital, equity_curve, ts, market_data, todo,
                   opportunities, result, startPositions>>

\* _process_timestamp sampling the equity only while a position is open
TrackEquity_holding ==
    /\ pc = "enter"
    /\ UNCHANGED liveVars
    /\ oi > Len(opportunities)
    /\ equity_curve' = IF positions = <<>> THEN equity_curve
                       ELSE Append(equity_curve, <<ts, calculate_equity(Self, market_data)>>)
    /\ pc' = "next"
    /\ UNCHANGED <<timeline, historical_data, replay, initial_capital, capital, positions, trades, ts, market_data,
                   todo, opportunities, oi, result, closed, fundingLog, feesPaid,
                   startPositions>>

\* the equity sample that ends _process_timestamp
TrackEquity ==
    /\ pc = "enter"
    /\ UNCHANGED liveVars
    /\ oi > Len(opportunities)
    /\ equity_curve' = Append(equity_curve, <<ts, calculate_equity(Self, market_data)>>)
    /\ pc' = "next"
    /\ UNCHANGED <<timeline, historical_data, replay, initial_capital, capital, positions, trades, ts, market_data,
                   todo, opportunities, oi, result, closed, fundingLog, feesPaid,
                   startPositions>>

\* the timeline is exhausted: the final close loop snapshots the keys
EndOfData ==
    /\ pc = "next"
    /\ UNCHANGED liveVars
    /\ todo' = Keys(positions)
    /\ pc' = "final"
    /\ UNCHANGED <<timeline, historical_data, replay, initial_capital, capital, positions, trades, equity_curve, ts,
                   market_data, opportunities, oi, result, closed, fundingLog,
                   feesPaid, startPositions>>

\* final close loop, one key: closed if the last bucket holds its asset
FinalCloseStep ==
    /\ pc = "final"
    /\ UNCHANGED liveVars
    /\ todo # <<>>
    /\ SetSelf(IF Has(market_data, Head(todo))
               THEN close_position(Self, Head(todo), ts,
                                   Get(market_data, Head(todo)).mark_price)
               ELSE Self)
    /\ todo' = Tail(todo)
    /\ UNCHANGED <<pc, timeline, historical_data, replay, initial_capital, equity_curve, ts, market_data,
                   opportunities, oi, result, startPositions>>

\* run() returns _create_result(start_time, end_time)
CreateResult ==
    /\ pc = "final"
    /\ UNCHANGED liveVars
    /\ todo = <<>>
    /\ result' = create_result(Self, 1, ts)
    /\ pc' = "done"
    /\ UNCHANGED <<timeline, historical_data, replay, initial_capital, capital, positions, trades, equity_curve, ts,
                   market_data, todo, opportunities, oi, closed, fundingLog,
                   feesPaid, startPositions>>

Next ==
    \/ RunEmpty
    \/ BeginBucket
    \/ UpdateSkip
    \/ UpdateExisting
    \/ FindOpportunities
    \/ EnterStep
    \/ TrackEquity
    \/ EndOfData
    \/ FinalCloseStep
    \/ CreateResult

Spec == Init /\ [][Next]_vars

---------------------------------------------------------------------------
(* The ledger operations called one by one.  A caller holding the engine   *)
(* calls _open_position, _update_position and _close_position directly,    *)
(* in any order and on any asset, up to MaxCalls times; ts counts the      *)
(* calls and is the timestamp passed, todo holds the last call.            *)

MaxCalls == 3

\* the data point a caller passes with a signal: one the signal comes from
PointFor(asset, signal, price) ==
    [asset |-> asset,
     funding_rate |-> IF signal = LONG_SPOT_SHORT_PERP THEN 2 * funding_threshold
                      ELSE -3 * funding_threshold,
     mark_price |-> price]

\* a Backtester after __init__, in the hands of a caller
LedgerInit ==
    /\ pc = "api"
    /\ NoStrategy
    /\ timeline = "calls"
    /\ historical_data = <<>>
    /\ replay = NoReplay
    /\ initial_capital \in InitialCapitals
    /\ capital = initial_capital
    /\ positions = <<>>
    /\ trades = <<>>
    /\ equity_curve = <<>>
    /\ ts = 0
    /\ market_data = <<>>
    /\ todo = <<>>
    /\ opportunities = <<>>
    /\ oi = 1
    /\ result = NoResult
    /\ closed = <<>>
    /\ fundingLog = <<>>
    /\ feesPaid = 0
    /\ startPositions = <<>>

\* a call of _open_position, whether or not the asset holds a position
ApiOpen ==
    /\ pc = "api"
    /\ UNCHANGED liveVars
    /\ ts < MaxCalls
    /\ \E asset \in Assets, price \in Prices,
          signal \in {LONG_SPOT_SHORT_PERP, SHORT_SPOT_LONG_PERP} :
            /\ SetSelf(open_position(Self, asset, ts + 1,
                                     PointFor(asset, signal, price), signal))
            /\ todo' = <<"open", asset>>
    /\ ts' = ts + 1
    /\ startPositions' = positions
    /\ UNCHANGED <<pc, timeline, historical_data, replay, initial_capital, equity_curve, market_data,
                   opportunities, oi, result>>

\* a call of _update_position on an asset that holds a position
ApiUpdate ==
    /\ pc = "api"
    /\ UNCHANGED liveVars
    /\ ts < MaxCalls
    /\ \E asset \in KeySet(positions), funding_rate \in SpikeRates, price \in Prices :
            /\ SetSelf(update_position(Self, asset, ts + 1,
                    [asset |-> asset, funding_rate |-> funding_rate,
                     mark_price |-> price]))
            /\ todo' = <<"update", asset>>
    /\ ts' = ts + 1
    /\ startPositions' = positions
    /\ UNCHANGED <<pc, timeline, historical_data, replay, initial_capital, equity_curve, market_data,
                   opportunities, oi, result>>

\* a call of _close_position, whether or not the asset holds a position
ApiClose ==
    /\ pc = "api"
    /\ UNCHANGED liveVars
    /\ ts < MaxCalls
    /\ \E asset \in Assets, price \in Prices :
            /\ SetSelf(close_position(Self, asset, ts + 1, price))
            /\ todo' = <<"close", asset>>
    /\ ts' = ts + 1
    /\ startPositions' = positions
    /\ UNCHANGED <<pc, timeline, historical_data, replay, initial_capital, equity_curve, market_data,
                   opportunities, oi, result>>

LedgerNext ==
    \/ ApiOpen
    \/ ApiUpdate
    \/ ApiClose

SpecLedger == LedgerInit /\ [][LedgerNext]_vars

\* ---------------------------------------------------------------------
\* Position sizing: _open_position on backtesters of small, large and
\* negative capital
\* ---------------------------------------------------------------------

\* capitals on both sides of max_position_size_usd / 0.8, whose 80% and
\* whose opening fee are whole
SizingCapitals == {-6250, 3125, 6250, 9375, 12500, 15625, 25000}

SizingInit ==
    /\ pc = "sizing"
    /\ NoStrategy
    /\ timeline = "sizing"
    /\ replay = NoReplay
    /\ initial_capital \in SizingCapitals
    /\ capital = initial_capital
    /\ result = NoResult
    /\ historical_data = <<>>
    /\ positions = <<>>
    /\ trades = <<>>
    /\ equity_curve = <<>>
    /\ ts = 0
    /\ market_data = <<>>
    /\ todo = <<>>
    /\ opportunities = <<>>
    /\ oi = 1
    /\ closed = <<>>
    /\ fundingLog = <<>>
    /\ feesPaid = 0
    /\ startPositions = <<>>

\* a call of _open_position with the data point of the bucket
SizingOpen ==
    /\ pc = "sizing"
    /\ UNCHANGED liveVars
    /\ ts < MaxCalls
    /\ \E asset \in Assets, price \in Prices,
          signal \in {LONG_SPOT_SHORT_PERP, SHORT_SPOT_LONG_PERP} :
            /\ SetSelf(open_position(Self, asset, ts + 1,
                                     PointFor(asset, signal, price), signal))
            /\ market_data' = <<PointFor(asset, signal, price)>>
            /\ todo' = <<"open", asset>>
    /\ ts' = ts + 1
    /\ startPositions' = positions
    /\ UNCHANGED <<pc, timeline, historical_data, replay, initial_capital, equity_curve,
                   opportunities, oi, result>>

SpecSizing == SizingInit /\ [][SizingOpen]_vars

---------------------------------------------------------------------------
(* Quantities the properties below speak about.                            *)

Range(q) == {q[i] : i \in 1..Len(q)}

\* sum of every funding amount _update_position applied so far
FundingTotal == SumSeq([i \in 1..Len(fundingLog) |-> fundingLog[i].amount])

\* sum of the price PnL of the positions closed so far
RealizedPricePnl ==
    SumSeq([i \in 1..Len(closed) |-> price_pnl(closed[i], closed[i].exit_price)])

\* sum of the funding amounts applied to the position of asset a opened at time e
FundingOf(a, e) ==
    SumSeq([i \in 1..Len(fundingLog) |->
        IF fundingLog[i].asset = a /\ fundingLog[i].entry_time = e
        THEN fundingLog[i].amount ELSE 0])

OpenTrades(a) == Len(SelectSeq(trades, LAMBDA t : t.action = "open" /\ t.asset = a))

CloseTrades(a) == Len(SelectSeq(trades, LAMBDA t : t.action = "close" /\ t.asset = a))

\* every amount computed so far was a whole number: each position, open or
\* closed, has the full notional, on which rates and fees divide evenly
NoRounding ==
    timeline # "spike" =>
        \A p \in Range(positions) \cup Range(closed) :
            p.size * p.entry_price = max_position_size_usd

---------------------------------------------------------------------------
(* C1 (as stated): after every operation of a run, capital equals          *)
(* initial_capital plus the sum of all funding amounts applied by update,  *)
(* each counted once, plus the price PnL of the closed positions, minus    *)
(* all open and close fees paid so far.                                    *)
C1_CapitalAccounting ==
    capital = initial_capital + FundingTotal + RealizedPricePnl - feesPaid

(* C2 (as stated): when run() has returned, every position closed during   *)
(* the run is in BacktestResult.positions with exit_time, exit_price and   *)
(* pnl set, and the number of positions in the result equals the number of *)
(* 'close' trades in the trade log.                                        *)
C2_ClosedPositionsReported ==
    pc = "done" =>
        /\ \A c \in Range(closed) : c \in Range(result.positions)
        /\ \A r \in Range(result.positions) :
              r.exit_time # None /\ r.exit_price # None
        /\ Len(result.positions) = Len(SelectSeq(result.trades, LAMBDA t : t.action = "close"))

(* C3 (as stated): in the result, num_winning_trades is the number of      *)
(* positions closed during the run with pnl > 0, num_losing_trades the     *)
(* number closed with pnl < 0, and win_rate is num_winning_trades divided  *)
(* by max(1, number of positions closed during the run).                   *)
C3_WinLossCounts ==
    pc = "done" =>
        /\ result.num_winning_trades = Len(SelectSeq(closed, LAMBDA c : c.pnl > 0))
        /\ result.num_losing_trades = Len(SelectSeq(closed, LAMBDA c : c.pnl < 0))
        /\ result.win_rate[1] * Max(1, Len(closed))
              = result.num_winning_trades * result.win_rate[2]

(* C4 (as stated): when run() returns on non-empty input no position is    *)
(* still open, also when its asset has no point in the final bucket, and   *)
(* every 'open' trade has a later 'close' trade of the same asset.         *)
C4_AllClosedAtEnd ==
    (pc = "done" /\ ts >= 1) =>
        /\ positions = <<>>
        /\ \A i \in 1..Len(trades) :
              trades[i].action = "open" =>
                \E j \in (i + 1)..Len(trades) :
                    trades[j].action = "close" /\ trades[j].asset = trades[i].asset

(* C5 (as stated): at every point of a run the number of open positions is *)
(* at most max(1, floor(0.8 * capital / max_position_size_usd)) on the     *)
(* current capital, which the open fees have already reduced.              *)
C5_CapacityOnCurrentCapital ==
    Len(positions) <= Max(1, max_positions(capital))

(* C5 (amended): whenever a position is opened, the number of positions    *)
(* open just before it is below max(1, floor(0.8 * capital /               *)
(* max_position_size_usd)) on the capital as it is at that moment, before  *)
(* the fee of this open is deducted.                                       *)
C5_CapacityAtOpen ==
    [][Len(positions') > Len(positions)
         => Len(positions) < Max(1, max_positions(capital))]_vars

\* C5 witness: a second position has been opened and the open fees have
\* brought the capital to where the capacity is one
C5_Witness ==
    /\ Len(positions) = 2
    /\ max_positions(capital) = 1
    /\ trades[Len(trades)].action = "open"

---------------------------------------------------------------------------
\* the record of asset a opened at time e is still in self.positions
StillOpen(a, e) ==
    \E p \in Range(positions) : p.asset = a /\ p.entry_time = e

\* the bucket is being processed or has just been processed
InBucket == pc \in {"update", "enter", "next"}

(* C6: in every reachable state there is at most one open position per     *)
(* asset (one key per asset in the open collection, and per asset one more *)
(* 'open' trade than 'close' trades exactly when it holds a position), and *)
(* no record of the open collection is in a closed state: its exit_time    *)
(* and exit_price are unset and it is none of the records closed so far.   *)
C6_OneOpenPerAsset ==
    /\ \A i, j \in 1..Len(positions) :
          positions[i].asset = positions[j].asset => i = j
    /\ \A a \in Assets :
          OpenTrades(a) - CloseTrades(a) = (IF Has(positions, a) THEN 1 ELSE 0)
    /\ \A p \in Range(positions) :
          /\ p.exit_time = None
          /\ p.exit_price = None
          /\ \A c \in Range(closed) :
                ~(c.asset = p.asset /\ c.entry_time = p.entry_time)

\* C6 witness: an asset whose position was closed holds a new open position
C6_Witness ==
    \E c \in Range(closed) :
        /\ Has(positions, c.asset)
        /\ c.exit_time # None
        /\ Get(positions, c.asset).entry_time = c.exit_time

(* C7: for every closed position, pnl = funding_collected + price_pnl -    *)
(* fees with price_pnl = (spot_size + perp_size) * (exit_price -           *)
(* entry_price) and fees = 2 * |size| * exit_price * trading_fee, and      *)
(* funding_collected is the sum of the funding amounts update applied to   *)
(* that position.                                                          *)
C7_ClosedPnl ==
    \A c \in Range(closed) :
        /\ c.pnl = c.funding_collected
                   + (c.spot_size + c.perp_size) * (c.exit_price - c.entry_price)
                   - TruncDiv(2 * Abs(c.size) * c.exit_price * trading_fee, RateScale)
        /\ c.funding_collected = FundingOf(c.asset, c.entry_time)

\* C7 witness: a position closed at another price than it was entered at,
\* after at least two updates with a funding amount other than zero
C7_Witness ==
    \E c \in Range(closed) :
        /\ c.exit_price # c.entry_price
        /\ Len(SelectSeq(fundingLog, LAMBDA f : f.asset = c.asset
                     /\ f.entry_time = c.entry_time /\ f.amount # 0)) >= 2
        /\ c.funding_collected # 0

(* C8: update-phase exit rule.  For every asset that held a position when  *)
(* the bucket began and has a point in the bucket, once the update loop    *)
(* has visited it the position is still open if and only if the signal of  *)
(* the point's funding rate equals the held signal; otherwise it has been  *)
(* closed at this bucket's timestamp and mark price.                       *)
C8_ExitRule ==
    InBucket =>
        \A p \in Range(startPositions) :
            (Has(market_data, p.asset) /\ ~(pc = "update" /\ p.asset \in Range(todo))) =>
                LET dp == Get(market_data, p.asset)
                IN  /\ StillOpen(p.asset, p.entry_time)
                        <=> get_signal(dp.funding_rate) = p.signal
                    /\ ~StillOpen(p.asset, p.entry_time) =>
                          \E c \in Range(closed) :
                              /\ c.asset = p.asset
                              /\ c.entry_time = p.entry_time
                              /\ c.exit_time = ts
                              /\ c.exit_price = dp.mark_price

\* C8 witness: the update phase is over and has closed a position whose
\* signal flipped to the opposite one, while another one was kept
C8_Witness ==
    /\ pc = "enter"
    /\ \E p \in Range(startPositions) :
          /\ Has(market_data, p.asset)
          /\ get_signal(Get(market_data, p.asset).funding_rate)
                \notin {p.signal, NO_SIGNAL}
          /\ ~StillOpen(p.asset, p.entry_time)
    /\ \E p \in Range(startPositions) :
          /\ Has(market_data, p.asset)
          /\ StillOpen(p.asset, p.entry_time)

\* what C9 says of a bucket: a position whose asset has no point in it is
\* the same record as when the bucket began, and no trade and no funding
\* amount of this bucket is on its asset
CarriedOver ==
    InBucket =>
        \A p \in Range(startPositions) :
            ~Has(market_data, p.asset) =>
                /\ p \in Range(positions)
                /\ \A t \in Range(trades) : ~(t.timestamp = ts /\ t.asset = p.asset)
                /\ \A f \in Range(fundingLog) : ~(f.timestamp = ts /\ f.asset = p.asset)

(* C9: carry-over.  When an asset with an open position has no point in a  *)
(* bucket, the update loop's visit of it changes neither capital, nor the  *)
(* positions, nor the trade log, and through the whole bucket the position *)
(* stays the record it was, open, without a trade or a funding amount.     *)
C9_CarryOver ==
    [][/\ (pc = "update" /\ todo # <<>> /\ ~Has(market_data, Head(todo)))
            => (capital' = capital /\ positions' = positions /\ trades' = trades
                /\ fundingLog' = fundingLog /\ feesPaid' = feesPaid)
       /\ CarriedOver']_vars

\* C9 witness: a bucket has been processed in which a position's asset had
\* no point while another asset was traded
C9_Witness ==
    /\ pc = "next"
    /\ \E p \in Range(startPositions) : ~Has(market_data, p.asset)
    /\ \E t \in Range(trades) : t.timestamp = ts

\* the candidates of the current bucket's entry phase: the points with a
\* signal whose asset held no position when the entry phase began
Candidates ==
    {dp \in Range(market_data) :
        /\ get_signal(dp.funding_rate) # NO_SIGNAL
        /\ ~\E p \in Range(positions) : p.asset = dp.asset /\ p.entry_time < ts}

\* the place in the trade log of the 'open' of asset a in the current bucket (0: none)
OpenedAt(a) ==
    IF \E i \in 1..Len(trades) :
          trades[i].action = "open" /\ trades[i].asset = a /\ trades[i].timestamp = ts
    THEN CHOOSE i \in 1..Len(trades) :
          trades[i].action = "open" /\ trades[i].asset = a /\ trades[i].timestamp = ts
    ELSE 0

(* C10: entry ranking.  In a bucket's entry phase, if candidate B has been *)
(* opened and candidate A of the same bucket has |rate_A| > |rate_B|, then *)
(* A has been opened in this bucket too and its 'open' trade precedes B's; *)
(* and candidates are opened while capacity remains: when the entry phase  *)
(* is over, a candidate is left unopened only if no position can be opened.*)
C10_EntryRanking ==
    /\ pc \in {"enter", "next"} =>
          \A a, b \in Candidates :
              (OpenedAt(b.asset) > 0 /\ Abs(a.funding_rate) > Abs(b.funding_rate)) =>
                  (OpenedAt(a.asset) > 0 /\ OpenedAt(a.asset) < OpenedAt(b.asset))
    /\ pc = "next" =>
          \A a \in Candidates :
              OpenedAt(a.asset) = 0 => ~can_open_position(Self)

\* C10 witness: of two candidates inserted in ascending order of |rate|,
\* the capacity let only one be opened, the one with the greater |rate|
C10_Witness ==
    /\ pc = "next"
    /\ \E a, b \in Candidates :
          /\ Abs(a.funding_rate) > Abs(b.funding_rate)
          /\ Keys(market_data) = <<b.asset, a.asset>>
          /\ OpenedAt(a.asset) > 0
          /\ OpenedAt(b.asset) = 0

---------------------------------------------------------------------------
(* Funding accrual (C13, C14).                                             *)

\* this step is an update of a position: _update_position logged one amount
FundingStep == Len(fundingLog') = Len(fundingLog) + 1

\* the amount the update of this step applied, and the asset it applied it to
LastFunding == fundingLog'[Len(fundingLog')]

\* the update of this step also closed the position it funded
ClosedInStep == Len(closed') = Len(closed) + 1

(* C13: per update, with position_value = |perp_size| * entry_price, a     *)
(* LongSpotShortPerp position receives funding_rate * position_value when  *)
(* the rate is positive and 0 otherwise; a ShortSpotLongPerp position pays *)
(* funding_rate * position_value when the rate is positive and receives    *)
(* |funding_rate| * position_value when it is negative; the amount is      *)
(* added to the position's funding_collected and to capital (a close in    *)
(* the same update then adds the closed position's pnl to capital).        *)
C13_FundingAccrual ==
    [][FundingStep =>
        LET a == LastFunding.asset
            before == Get(positions, a)
            after == IF ClosedInStep THEN closed'[Len(closed')] ELSE Get(positions', a)
            funding_rate == Get(market_data, a).funding_rate
            position_value == Abs(before.perp_size) * before.entry_price
            amount == LastFunding.amount
        IN  /\ Has(positions, a)
            /\ before.signal = LONG_SPOT_SHORT_PERP /\ funding_rate > 0
                    => amount = TimesRate(position_value, funding_rate)
            /\ before.signal = LONG_SPOT_SHORT_PERP /\ funding_rate <= 0
                    => amount = 0
            /\ before.signal = SHORT_SPOT_LONG_PERP /\ funding_rate > 0
                    => amount = -TimesRate(position_value, funding_rate)
            /\ before.signal = SHORT_SPOT_LONG_PERP /\ funding_rate < 0
                    => amount = TimesRate(position_value, -funding_rate)
            /\ after.asset = a /\ after.entry_time = before.entry_time
            /\ after.funding_collected = before.funding_collected + amount
            /\ capital' = capital + amount + (IF ClosedInStep THEN after.pnl ELSE 0)
    ]_vars

\* updates have received funding, paid funding and applied a zero amount
C13_Witness ==
    /\ \E i \in 1..Len(fundingLog) : fundingLog[i].amount > 0
    /\ \E i \in 1..Len(fundingLog) : fundingLog[i].amount < 0
    /\ \E i \in 1..Len(fundingLog) : fundingLog[i].amount = 0

(* C14 (as stated): a held position never pays funding: every amount an    *)
(* update applies, for either signal, is >= 0.                             *)
C14_NeverPays == \A i \in 1..Len(fundingLog) : fundingLog[i].amount >= 0

(* C14 (amended): a LongSpotShortPerp position never pays funding; a       *)
(* ShortSpotLongPerp position pays exactly in an update whose funding rate *)
(* is positive, and that update closes it, so funding_collected decreases  *)
(* at most once in a position's lifetime, in its last update.              *)
C14_PaysOnlyOnExit ==
    [][FundingStep =>
        LET a == LastFunding.asset
            before == Get(positions, a)
            funding_rate == Get(market_data, a).funding_rate
            amount == LastFunding.amount
        IN  /\ before.signal = LONG_SPOT_SHORT_PERP => amount >= 0
            /\ before.signal = SHORT_SPOT_LONG_PERP
                    => (amount < 0 <=> funding_rate > 0)
            /\ amount < 0 =>
                    /\ ClosedInStep
                    /\ ~Has(positions', a)
                    /\ closed'[Len(closed')].asset = a
                    /\ closed'[Len(closed')].entry_time = before.entry_time
    ]_vars

\* a position that paid funding in an update has been closed at that time
C14_Witness ==
    \E i \in 1..Len(fundingLog) : \E j \in 1..Len(closed) :
        /\ fundingLog[i].amount < 0
        /\ closed[j].asset = fundingLog[i].asset
        /\ closed[j].entry_time = fundingLog[i].entry_time
        /\ closed[j].exit_time = fundingLog[i].timestamp

---------------------------------------------------------------------------
(* Signal classification (C15).                                            *)

\* the signals of the candidates the entry phase found for asset a
SignalsFound(a) == {opportunities'[i].signal :
                       i \in {j \in 1..Len(opportunities') : opportunities'[j].asset = a}}

---------------------------------------------------------------------------
(* Delta neutrality (C17).                                                 *)

(* C17 (as stated): every position, open or closed, has spot and perp legs *)
(* of equal magnitude and opposite sign, spot > 0 and perp < 0 for         *)
(* LongSpotShortPerp and the reverse for ShortSpotLongPerp, so that        *)
(* spot_size + perp_size = 0 and its price PnL is 0 at any price.          *)
C17_DeltaNeutral ==
    \A p \in Range(positions) \cup Range(closed) :
        /\ p.spot_size + p.perp_size = 0
        /\ Abs(p.spot_size) = Abs(p.perp_size)
        /\ p.signal = LONG_SPOT_SHORT_PERP => p.spot_size > 0 /\ p.perp_size < 0
        /\ p.signal = SHORT_SPOT_LONG_PERP => p.spot_size < 0 /\ p.perp_size > 0
        /\ \A price \in Prices \cup SpikePrices : price_pnl(p, price) = 0

---------------------------------------------------------------------------
(* Opening a position (C18).                                               *)

\* this step opened a position: _open_position logged one 'open' trade
OpenStep ==
    /\ Len(trades') = Len(trades) + 1
    /\ trades'[Len(trades')].action = "open"

(* C18: an open deducts 2 * size_usd * trading_fee from capital, size_usd  *)
(* being the notional that sizes the position (size = size_usd /           *)
(* mark_price); it creates the position with the entry_time and the        *)
(* entry_price of the current bucket and appends one 'open' trade that     *)
(* carries the signal.                                                     *)
C18_OpenEffects ==
    [][OpenStep =>
        LET trade == trades'[Len(trades')]
            point == Get(market_data, trade.asset)
            size_usd == Min(max_position_size_usd, TruncDiv(capital * 4, 5))
            position == Get(positions', trade.asset)
        IN  /\ Has(market_data, trade.asset)
            /\ capital - capital' = TruncDiv(2 * size_usd * trading_fee, RateScale)
            /\ Keys(positions') = Append(Keys(positions), trade.asset)
            /\ position.size = TruncDiv(size_usd, point.mark_price)
            /\ position.entry_time = ts
            /\ position.entry_price = point.mark_price
            /\ position.signal = get_signal(point.funding_rate)
            /\ position.funding_collected = 0
            /\ trades' = Append(trades,
                    [timestamp |-> ts, asset |-> trade.asset, action |-> "open",
                     price |-> point.mark_price, size |-> position.size,
                     signal |-> position.signal])
            /\ position.signal # NO_SIGNAL
    ]_vars

\* a position has just been opened in the entry phase of this bucket
C18_Witness ==
    /\ pc = "enter"
    /\ trades # <<>>
    /\ trades[Len(trades)].action = "open"
    /\ trades[Len(trades)].timestamp = ts
    /\ Has(positions, trades[Len(trades)].asset)
    /\ capital < initial_capital

---------------------------------------------------------------------------
(* Equity samples (C19, C20).                                              *)

(* C19 (as stated): the equity sample of a bucket equals capital plus the  *)
(* sum, over every position open at the end of the bucket, of its          *)
(* unrealized price PnL and its funding_collected; no open position is     *)
(* left out.  (The unrealized price PnL of a position whose asset has no   *)
(* point in the bucket is taken as 0, which it is at any price.)           *)
C19_EquityOverAllPositions ==
    pc = "next" =>
        equity_curve[Len(equity_curve)][2] =
            capital
            + SumSeq([i \in 1..Len(positions) |->
                positions[i].funding_collected
                + (IF Has(market_data, positions[i].asset)
                   THEN price_pnl(positions[i],
                                  Get(market_data, positions[i].asset).mark_price)
                   ELSE 0)])

(* C20: one equity sample is appended per processed bucket, after the      *)
(* bucket's update and entry phases; the curve is append-only, its         *)
(* timestamps are the bucket timestamps in strictly ascending order and    *)
(* its length is the number of buckets processed.                          *)
C20_OneSamplePerBucket ==
    [][/\ Len(equity_curve') = (IF pc' \in {"update", "enter"} THEN ts' - 1 ELSE ts')
       /\ \A i \in 1..Len(equity_curve') : equity_curve'[i][1] = i
       /\ \A i, j \in 1..Len(equity_curve') :
             i < j => equity_curve'[i][1] < equity_curve'[j][1]
       /\ equity_curve' # equity_curve =>
             /\ pc = "enter" /\ todo = <<>> /\ oi > Len(opportunities)
             /\ pc' = "next"
             /\ Len(equity_curve') = Len(equity_curve) + 1
             /\ SubSeq(equity_curve', 1, Len(equity_curve)) = equity_curve
             /\ equity_curve'[Len(equity_curve')][1] = ts
    ]_vars

\* two buckets have been processed, the second ending without any position
C20_Witness ==
    /\ pc = "next"
    /\ positions = <<>>
    /\ Len(equity_curve) = 2

---------------------------------------------------------------------------
(* run() as one function of the input map.  The map is a sequence of       *)
(* [asset, points] in the iteration order of the dict; a point carries its *)
(* own timestamp, in units of half a check interval.                       *)

\* interval_ms of run(): the width of a bucket
interval_ms == 2

MaxPoints == 2

\* the timestamps of the input points: two in the first bucket, one in the next
Times == {0, 1, 2}

\* all_points before the sort: the lists of the map chained in iteration order
RECURSIVE flatten(_)
flatten(hist) ==
    IF hist = <<>> THEN <<>> ELSE Head(hist).points \o flatten(Tail(hist))

\* where the stable sort by timestamp puts x among the already sorted t
insert_by_time(x, t) ==
    LET k == Cardinality({i \in 1..Len(t) : t[i].timestamp <= x.timestamp})
    IN  SubSeq(t, 1, k) \o <<x>> \o SubSeq(t, k + 1, Len(t))

RECURSIVE sort_by_time(_)
\* all_points.sort(key=lambda x: x.timestamp)
sort_by_time(l) ==
    IF l = <<>> THEN <<>>
    ELSE insert_by_time(l[Len(l)], sort_by_time(SubSeq(l, 1, Len(l) - 1)))

\* rounded_time rounding to the nearest multiple of the interval instead of
\* rounding down
rounded_time_nearest(timestamp) ==
    ((timestamp + interval_ms \div 2) \div interval_ms) * interval_ms

\* rounded_time of run(): (timestamp // interval_ms) * interval_ms
rounded_time(timestamp) == (timestamp \div interval_ms) * interval_ms

RECURSIVE to_dict(_)
\* the dict that successive d[point.asset] = point build from a list of points
to_dict(l) ==
    IF l = <<>> THEN <<>>
    ELSE DictSet(to_dict(SubSeq(l, 1, Len(l) - 1)), l[Len(l)])

\* data_by_time[t]
market_data_at(all_points, t) ==
    to_dict(SelectSeq(all_points, LAMBDA p : rounded_time(p.timestamp) = t))

RECURSIVE sorted_times(_)
\* sorted(data_by_time.keys())
sorted_times(S) ==
    IF S = {} THEN <<>>
    ELSE LET m == CHOOSE x \in S : \A y \in S : x <= y
         IN  <<m>> \o sorted_times(S \ {m})

RECURSIVE update_all(_, _, _, _)
\* the update loop of _process_timestamp over the snapshot of the keys
update_all(s, keys, timestamp, md) ==
    IF keys = <<>> THEN s
    ELSE update_all(
            IF Has(md, Head(keys))
            THEN update_position(s, Head(keys), timestamp, Get(md, Head(keys)))
            ELSE s,
            Tail(keys), timestamp, md)

RECURSIVE enter_all(_, _, _)
\* the entry loop of _process_timestamp over the sorted opportunities
enter_all(s, opps, timestamp) ==
    IF opps = <<>> THEN s
    ELSE enter_all(
            IF can_open_position(s)
            THEN open_position(s, Head(opps).asset, timestamp,
                               Head(opps).data_point, Head(opps).signal)
            ELSE s,
            Tail(opps), timestamp)

\* Backtester._process_timestamp
process_timestamp(s, timestamp, md) ==
    LET s1 == update_all(s, Keys(s.positions), timestamp, md)
        s2 == enter_all(s1,
                sort_opportunities(scan_opportunities(s1.positions, md)), timestamp)
    IN  [s2 EXCEPT !.equity_curve =
            Append(s2.equity_curve, <<timestamp, calculate_equity(s2, md)>>)]

RECURSIVE simulate(_, _, _)
\* the simulation loop of run()
simulate(s, times, all_points) ==
    IF times = <<>> THEN s
    ELSE simulate(
            process_timestamp(s, Head(times), market_data_at(all_points, Head(times))),
            Tail(times), all_points)

RECURSIVE close_all(_, _, _, _)
\* the final close loop of run()
close_all(s, keys, timestamp, md) ==
    IF keys = <<>> THEN s
    ELSE close_all(
            IF Has(md, Head(keys))
            THEN close_position(s, Head(keys), timestamp, Get(md, Head(keys)).mark_price)
            ELSE s,
            Tail(keys), timestamp, md)

\* the fields of a Backtester after __init__
new_engine(cap) ==
    [initial_capital |-> cap, capital |-> cap, positions |-> <<>>, trades |-> <<>>,
     equity_curve |-> <<>>, closed |-> <<>>, fundingLog |-> <<>>, feesPaid |-> 0]

\* run(hist) on an engine with the fields s: the result returned and the
\* engine left behind.  run() goes on from the fields as they are
run_on(s, hist) ==
    LET all_points == sort_by_time(flatten(hist))
        times == sorted_times({rounded_time(all_points[i].timestamp) :
                                  i \in 1..Len(all_points)})
    IN  IF all_points = <<>>
        THEN [engine |-> s, result |-> create_result(s, 0, 0)]
        ELSE
        LET last == times[Len(times)]
            s1 == simulate(s, times, all_points)
            s2 == close_all(s1, Keys(s1.positions), last,
                            market_data_at(all_points, last))
        IN  [engine |-> s2,
             result |-> create_result(s2, all_points[1].timestamp,
                                      all_points[Len(all_points)].timestamp)]

\* Backtester(initial_capital=cap).run(hist)
run(cap, hist) == run_on(new_engine(cap), hist)

\* the lists of at most MaxPoints points an input map can hold for an asset
PointLists(asset) ==
    UNION {[1..n -> [timestamp : Times, asset : {asset},
                     funding_rate : SpikeRates, mark_price : {1}]] : n \in 0..MaxPoints}

\* the input map of asset A, then asset B, each with its list of points
HistoricalInput(pa, pb) ==
    <<[asset |-> "A", points |-> pa], [asset |-> "B", points |-> pb]>>

\* the same map iterated in the opposite order
reversed(hist) == [i \in 1..Len(hist) |-> hist[Len(hist) + 1 - i]]

\* a caller holding an input map and a configuration
ReplayInit ==
    /\ pc = "replay"
    /\ NoStrategy
    /\ timeline = "map"
    /\ \/ historical_data = <<>>
       \/ \E pa \in PointLists("A"), pb \in PointLists("B") :
             historical_data = HistoricalInput(pa, pb)
    /\ replay = NoReplay
    /\ initial_capital \in InitialCapitals
    /\ capital = initial_capital
    /\ positions = <<>>
    /\ trades = <<>>
    /\ equity_curve = <<>>
    /\ ts = 0
    /\ market_data = <<>>
    /\ todo = <<>>
    /\ opportunities = <<>>
    /\ oi = 1
    /\ result = NoResult
    /\ closed = <<>>
    /\ fundingLog = <<>>
    /\ feesPaid = 0
    /\ startPositions = <<>>

\* a fresh engine runs on the map
RunFirst ==
    /\ pc = "replay"
    /\ UNCHANGED liveVars
    /\ replay' = [first |-> run(initial_capital, historical_data)]
    /\ pc' = "again"
    /\ UNCHANGED <<timeline, historical_data, initial_capital, capital, positions, trades, equity_curve,
                   ts, market_data, todo, opportunities, oi, result, closed,
                   fundingLog, feesPaid, startPositions>>

\* a second fresh engine runs on the same content in the opposite map order
RunSecond ==
    /\ pc = "again"
    /\ UNCHANGED liveVars
    /\ replay' = [first |-> replay.first,
                  second |-> run(initial_capital, reversed(historical_data))]
    /\ pc' = "compared"
    /\ UNCHANGED <<timeline, historical_data, initial_capital, capital, positions, trades, equity_curve,
                   ts, market_data, todo, opportunities, oi, result, closed,
                   fundingLog, feesPaid, startPositions>>

\* the same map with every asset's sequence of points in the opposite order
points_reversed(hist) ==
    [k \in 1..Len(hist) |->
        [asset |-> hist[k].asset, points |-> reversed(hist[k].points)]]

\* a third fresh engine runs on the same points, each asset's sequence given in
\* the opposite order
RunPermuted ==
    /\ pc = "compared"
    /\ UNCHANGED liveVars
    /\ replay' = [first |-> replay.first, second |-> replay.second,
                  permuted |-> run(initial_capital, points_reversed(historical_data))]
    /\ pc' = "permuted"
    /\ UNCHANGED <<timeline, historical_data, initial_capital, capital, positions, trades, equity_curve,
                   ts, market_data, todo, opportunities, oi, result, closed,
                   fundingLog, feesPaid, startPositions>>

ReplayNext ==
    \/ RunFirst
    \/ RunSecond
    \/ RunPermuted

SpecReplay == ReplayInit /\ [][ReplayNext]_vars

---------------------------------------------------------------------------
(* Scenarios: run() on one asset with a point in each of three consecutive *)
(* buckets.  Scenario A of the specification (capital 10000, the default   *)
(* max_position_size_usd of 5000, price 50000 throughout, funding 0.0002,  *)
(* 0.0002, -0.0003) is one of them: the engine is linear in the money unit *)
(* and in the unit of the asset, so with max_position_size_usd standing    *)
(* for 5000 dollars every amount is in half dollars, the capital is 20000  *)
(* and the flat price is 1.                                                *)

\* the timestamps of the three points: one per bucket
ScenarioTimes == <<0, 2, 4>>

\* initial capitals of the scenarios: that of Scenario A, and one that a close
\* at the high price brings to exactly zero
ScenarioCapitals == {20000, 40002}

\* the input map of a scenario
ScenarioInput(rates, prices) ==
    <<[asset |-> "A",
       points |-> [i \in 1..Len(ScenarioTimes) |->
                    [timestamp |-> ScenarioTimes[i], asset |-> "A",
                     funding_rate |-> rates[i], mark_price |-> prices[i]]]]>>

\* Scenario A
ScenarioA == ScenarioInput(<<2, 2, -3>>, <<1, 1, 1>>)

\* a caller holding a scenario and a configuration
ScenarioInit ==
    /\ pc = "scenario"
    /\ NoStrategy
    /\ timeline = "scenario"
    /\ \E rates \in [1..Len(ScenarioTimes) -> Rates],
          prices \in [1..Len(ScenarioTimes) -> SpikePrices] :
            historical_data = ScenarioInput(rates, prices)
    /\ replay = NoReplay
    /\ initial_capital \in ScenarioCapitals
    /\ capital = initial_capital
    /\ positions = <<>>
    /\ trades = <<>>
    /\ equity_curve = <<>>
    /\ ts = 0
    /\ market_data = <<>>
    /\ todo = <<>>
    /\ opportunities = <<>>
    /\ oi = 1
    /\ result = NoResult
    /\ closed = <<>>
    /\ fundingLog = <<>>
    /\ feesPaid = 0
    /\ startPositions = <<>>

\* a fresh engine runs on the scenario
ScenarioRun ==
    /\ pc = "scenario"
    /\ UNCHANGED liveVars
    /\ replay' = [first |-> run(initial_capital, historical_data)]
    /\ pc' = "ran"
    /\ UNCHANGED <<timeline, historical_data, initial_capital, capital, positions, trades, equity_curve,
                   ts, market_data, todo, opportunities, oi, result, closed,
                   fundingLog, feesPaid, startPositions>>

\* run() is called once more on the same engine with the same scenario
ScenarioRerun ==
    /\ pc = "ran"
    /\ UNCHANGED liveVars
    /\ replay' = [first |-> replay.first,
                  again |-> run_on(replay.first.engine, historical_data)]
    /\ pc' = "reran"
    /\ UNCHANGED <<timeline, historical_data, initial_capital, capital, positions, trades, equity_curve,
                   ts, market_data, todo, opportunities, oi, result, closed,
                   fundingLog, feesPaid, startPositions>>

ScenarioNext ==
    \/ ScenarioRun
    \/ ScenarioRerun

SpecScenario == ScenarioInit /\ [][ScenarioNext]_vars

---------------------------------------------------------------------------
(* Inputs with a mark price that is not positive.  run() takes the points  *)
(* as they come: nothing between the flattening and the replay loop looks  *)
(* at mark_price.                                                          *)

IngestPrices == {-2, 1}

\* a caller holding a three-bucket history of asset A whose mark prices may
\* be negative
IngestInit ==
    /\ pc = "ingest"
    /\ NoStrategy
    /\ timeline = "ingest"
    /\ \E rates \in [1..3 -> Rates], prices \in [1..3 -> IngestPrices] :
          historical_data = ScenarioInput(rates, prices)
    /\ replay = NoReplay
    /\ initial_capital \in InitialCapitals
    /\ capital = initial_capital
    /\ positions = <<>>
    /\ trades = <<>>
    /\ equity_curve = <<>>
    /\ ts = 0
    /\ market_data = <<>>
    /\ todo = <<>>
    /\ opportunities = <<>>
    /\ oi = 1
    /\ result = NoResult
    /\ closed = <<>>
    /\ fundingLog = <<>>
    /\ feesPaid = 0
    /\ startPositions = <<>>

\* a fresh engine runs on the history
IngestRun ==
    /\ pc = "ingest"
    /\ UNCHANGED liveVars
    /\ replay' = [first |-> run(initial_capital, historical_data)]
    /\ pc' = "ingested"
    /\ UNCHANGED <<timeline, historical_data, initial_capital, capital, positions, trades, equity_curve,
                   ts, market_data, todo, opportunities, oi, result, closed,
                   fundingLog, feesPaid, startPositions>>

SpecIngest == IngestInit /\ [][IngestRun]_vars

---------------------------------------------------------------------------
(* The live strategy: FundingArbStrategy of src/strategy.py with its       *)
(* PositionManager (src/position_manager.py), FundingMonitor               *)
(* (src/funding_monitor.py) and HyperliquidClient                          *)
(* (src/hyperliquid_client.py).  One iteration is _check_account_health,   *)
(* _manage_existing_positions and _find_new_opportunities in turn, each an *)
(* action.  What the exchange answers is drawn anew for every action: the  *)
(* funding rate and mark price of each asset, whether a position is safe,  *)
(* the safe position size, and whether each market order goes through.     *)
(* HyperliquidClient catches every exception of the exchange: a failed     *)
(* place_market_order returns None and a failed update_leverage False.     *)

MaxIterations == 2

\* config.assets
LiveAssets == <<"A", "B">>

LiveRates == {-3, 0, 2}

\* get_mark_price answers 0 when the price cannot be had
LivePrices == {0, 1}

\* what get_funding_rate and get_mark_price answer for each asset
Markets == [Range(LiveAssets) -> [funding_rate : LiveRates, mark_price : LivePrices]]

\* what calculate_safe_position_size can answer: below the minimum, or the
\* desired size
SafeSizes == {50, max_position_size_usd}

\* the minimum position of _find_new_opportunities: safe_size < 100 is skipped
min_position_usd == 100

\* what the exchange answers while open_position runs on an asset: the mark
\* price, and whether the first and the second market order are placed
Fills ==
    {[mark_price |-> 0, first_ok |-> FALSE, second_ok |-> FALSE]}
    \cup [mark_price : {1}, first_ok : BOOLEAN, second_ok : BOOLEAN]

\* FundingMonitor._get_signal
monitor_get_signal(funding_rate) ==
    IF funding_rate > funding_threshold THEN LONG_SPOT_SHORT_PERP
    ELSE IF funding_rate < -funding_threshold THEN SHORT_SPOT_LONG_PERP
    ELSE NO_SIGNAL

\* whether FundingMonitor.get_funding_data returns a FundingData, not None
has_funding_data(market, asset) == market[asset].mark_price # 0

\* FundingMonitor.should_exit_position
\* should_exit_position without its below-threshold exit
should_exit_position_flip_only(market, asset, current_signal) ==
    IF ~has_funding_data(market, asset) THEN TRUE
    ELSE LET signal == monitor_get_signal(market[asset].funding_rate)
         IN  signal # current_signal /\ signal # NO_SIGNAL

should_exit_position(market, asset, current_signal) ==
    IF ~has_funding_data(market, asset) THEN TRUE
    ELSE LET signal == monitor_get_signal(market[asset].funding_rate)
         IN  \/ (signal # current_signal /\ signal # NO_SIGNAL)
             \/ signal = NO_SIGNAL

\* where the stable sort by expected_apr, descending, puts x among the
\* already sorted t
insert_by_apr(x, t) ==
    LET k == Cardinality({i \in 1..Len(t) :
                            Abs(t[i].funding_rate) >= Abs(x.funding_rate)})
    IN  SubSeq(t, 1, k) \o <<x>> \o SubSeq(t, k + 1, Len(t))

RECURSIVE sort_by_apr(_)
\* opportunities.sort(key=lambda x: x.expected_apr, reverse=True)
sort_by_apr(l) ==
    IF l = <<>> THEN <<>>
    ELSE insert_by_apr(l[Len(l)], sort_by_apr(SubSeq(l, 1, Len(l) - 1)))

\* FundingMonitor.get_best_opportunities
get_best_opportunities(market, assets) ==
    LET data == [i \in 1..Len(assets) |->
                    [asset |-> assets[i],
                     funding_rate |-> market[assets[i]].funding_rate,
                     mark_price |-> market[assets[i]].mark_price,
                     signal |-> monitor_get_signal(market[assets[i]].funding_rate)]]
    IN  sort_by_apr(SelectSeq(data,
            LAMBDA d : d.mark_price # 0 /\ d.signal # NO_SIGNAL))

\* a client operation that places an order or changes the leverage
ClientCall(op, asset, is_buy, reduce_only) ==
    [op |-> op, asset |-> asset, is_buy |-> is_buy, reduce_only |-> reduce_only]

\* the fields of the PositionManager, its client's calls and the entry log
LiveSelf == [positions |-> manager_positions, calls |-> client_calls,
             entries |-> entry_log, raised |-> FALSE]

\* PositionManager.open_position; its return value and what it met go to
\* the entry log
pm_open_position(s, asset, signal, size_usd, fill) ==
    LET capped == Min(size_usd, max_position_size_usd)
        mark_price == fill.mark_price
        entry(returned, ordered, after) ==
            [asset |-> asset, called |-> TRUE, returned |-> returned,
             ordered |-> ordered, first_ok |-> fill.first_ok,
             second_ok |-> fill.second_ok, before |-> s.positions, after |-> after]
    IN  IF mark_price = 0
        THEN [s EXCEPT !.entries = Append(@, entry(FALSE, FALSE, s.positions))]
        ELSE
        LET size == capped \div mark_price
            leveraged == Append(s.calls, ClientCall("update_leverage", asset, FALSE, FALSE))
        IN  IF signal \notin {LONG_SPOT_SHORT_PERP, SHORT_SPOT_LONG_PERP}
            THEN [s EXCEPT !.calls = leveraged,
                           !.entries = Append(@, entry(FALSE, FALSE, s.positions))]
            ELSE
            LET long_first == signal = LONG_SPOT_SHORT_PERP
                tracked == DictSet(s.positions,
                    [asset |-> asset,
                     spot_size |-> IF long_first THEN size ELSE -size,
                     perp_size |-> IF long_first THEN -size ELSE size,
                     entry_price |-> mark_price,
                     signal |-> signal])
            IN  [s EXCEPT
                    !.calls = leveraged \o
                        <<ClientCall("place_market_order", asset, long_first, FALSE),
                          ClientCall("place_market_order", asset, ~long_first, FALSE)>>,
                    !.positions = tracked,
                    !.entries = Append(@, entry(TRUE, TRUE, tracked))]

\* PositionManager.close_position
pm_close_position(s, asset) ==
    IF ~Has(s.positions, asset) THEN s
    ELSE
    LET position == Get(s.positions, asset)
        leg(size) == IF size = 0 THEN <<>>
                     ELSE <<ClientCall("place_market_order", asset, size < 0, TRUE)>>
    IN  [s EXCEPT
            !.calls = @ \o leg(position.spot_size) \o leg(position.perp_size),
            !.positions = DictDel(@, asset)]

RECURSIVE manage_loop(_, _, _, _, _)
\* the loop of _manage_existing_positions over the copy of the positions.  A
\* position that is safe and has no exit signal reaches
\* position.is_balanced(threshold): is_balanced is a property, the call of
\* its value raises TypeError and the iteration ends there
manage_loop(s, keys, market, safe, dry) ==
    IF keys = <<>> THEN s
    ELSE LET asset == Head(keys)
             position == Get(s.positions, asset)
         IN  IF ~safe[asset] \/ should_exit_position(market, asset, position.signal)
             THEN manage_loop(IF dry THEN s ELSE pm_close_position(s, asset),
                              Tail(keys), market, safe, dry)
             ELSE [s EXCEPT !.raised = TRUE]

\* FundingArbStrategy._manage_existing_positions
manage_existing_positions(s, market, safe, dry) ==
    manage_loop(s, Keys(s.positions), market, safe, dry)

RECURSIVE find_loop(_, _, _, _, _)
\* the loop of _find_new_opportunities over the opportunities
find_loop(s, opps, safe_size, fill, dry) ==
    IF opps = <<>> THEN s
    ELSE LET opp == Head(opps)
         IN  find_loop(
                IF Has(s.positions, opp.asset) \/ safe_size < min_position_usd THEN s
                ELSE IF dry
                THEN [s EXCEPT !.entries = Append(@,
                        [asset |-> opp.asset, called |-> FALSE, returned |-> FALSE,
                         ordered |-> FALSE, first_ok |-> FALSE, second_ok |-> FALSE,
                         before |-> s.positions, after |-> s.positions])]
                ELSE pm_open_position(s, opp.asset, opp.signal, safe_size,
                                      fill[opp.asset]),
                Tail(opps), safe_size, fill, dry)

\* _find_new_opportunities entering whatever self.dry_run says
find_new_opportunities_live_only(s, market, safe_size, fill, dry) ==
    find_loop(s, get_best_opportunities(market, LiveAssets), safe_size, fill, FALSE)

\* FundingArbStrategy._find_new_opportunities
find_new_opportunities(s, market, safe_size, fill, dry) ==
    find_loop(s, get_best_opportunities(market, LiveAssets), safe_size, fill, dry)

\* no backtest runs beside the live strategy
NoBacktest ==
    /\ timeline = "live"
    /\ historical_data = <<>>
    /\ replay = NoReplay
    /\ initial_capital = 0
    /\ capital = 0
    /\ positions = <<>>
    /\ trades = <<>>
    /\ equity_curve = <<>>
    /\ ts = 0
    /\ market_data = <<>>
    /\ todo = <<>>
    /\ opportunities = <<>>
    /\ oi = 1
    /\ result = NoResult
    /\ closed = <<>>
    /\ fundingLog = <<>>
    /\ feesPaid = 0
    /\ startPositions = <<>>

\* FundingArbStrategy.__init__: live or dry-run, nothing tracked
LiveInit ==
    /\ pc = "live"
    /\ NoBacktest
    /\ dry_run \in BOOLEAN
    /\ iterations = 0
    /\ manager_positions = <<>>
    /\ client_calls = <<>>
    /\ entry_log = <<>>

\* _run_iteration, step 1: _check_account_health reads the account and logs
CheckAccountHealth ==
    /\ pc = "live"
    /\ iterations < MaxIterations
    /\ iterations' = iterations + 1
    /\ pc' = "manage"
    /\ UNCHANGED <<engineVars, dry_run, manager_positions, client_calls, entry_log>>

\* _run_iteration, step 2; an exception ends the iteration
ManageExistingPositions ==
    /\ pc = "manage"
    /\ \E market \in Markets, safe \in [Range(LiveAssets) -> BOOLEAN] :
          LET s == manage_existing_positions(LiveSelf, market, safe, dry_run)
          IN  /\ manager_positions' = s.positions
              /\ client_calls' = s.calls
              /\ pc' = IF s.raised THEN "live" ELSE "find"
    /\ UNCHANGED <<engineVars, dry_run, iterations, entry_log>>

\* _run_iteration, step 3
FindNewOpportunities ==
    /\ pc = "find"
    /\ \E market \in Markets, safe_size \in SafeSizes,
          fill \in [Range(LiveAssets) -> Fills] :
          LET s == find_new_opportunities([LiveSelf EXCEPT !.entries = <<>>],
                                          market, safe_size, fill, dry_run)
          IN  /\ manager_positions' = s.positions
              /\ client_calls' = s.calls
              /\ entry_log' = s.entries
    /\ pc' = "live"
    /\ UNCHANGED <<engineVars, dry_run, iterations>>

LiveNext ==
    \/ CheckAccountHealth
    \/ ManageExistingPositions
    \/ FindNewOpportunities

SpecLive == LiveInit /\ [][LiveNext]_vars

---------------------------------------------------------------------------
(* Input-order independence (C11), under SpecReplay.                       *)

(* C11 (as stated): two runs on fresh engines with the same configuration  *)
(* and the same asset-to-points content, differing only in the iteration   *)
(* order of the assets in the input map, produce the same trade log, the   *)
(* same closed positions and the same equity curve.                        *)
C11_InputOrderIndependent ==
    pc = "compared" =>
        /\ replay.first.result.trades = replay.second.result.trades
        /\ replay.first.engine.closed = replay.second.engine.closed
        /\ replay.first.result.equity_curve = replay.second.result.equity_curve

---------------------------------------------------------------------------
(* A second open (C16), under SpecLedger.                                  *)

(* C16 (as stated): an open operation on an asset that already has an open *)
(* position is a no-op: capital, the existing position record (with its    *)
(* funding_collected) and the trade log are unchanged.                     *)
C16_SecondOpenIsNoOp ==
    [][(pc = "api" /\ ts' = ts + 1 /\ todo'[1] = "open" /\ Has(positions, todo'[2]))
        => /\ capital' = capital
           /\ positions' = positions
           /\ trades' = trades
    ]_vars

---------------------------------------------------------------------------
(* Maximum drawdown (C21, C22).                                            *)

\* the equity value of sample i of the curve the result reports
SampleOf(i) == result.equity_curve[i][2]

\* the greatest equity value among the samples 1..i
PeakAt(i) ==
    CHOOSE m \in {SampleOf(j) : j \in 1..i} : \A j \in 1..i : SampleOf(j) <= m

\* the decline of sample i from the running peak, as a share of the peak
DeclineAt(i) == Value(PeakAt(i) - SampleOf(i), PeakAt(i))

NonDecreasing ==
    \A i \in 1..(Len(result.equity_curve) - 1) : SampleOf(i) <= SampleOf(i + 1)

(* C21 (as stated): the max_drawdown of the result lies in [0, 1] for      *)
(* every run, also when close fees at a much higher exit price drive       *)
(* capital and equity to zero or below.                                    *)
C21_DrawdownInUnitInterval ==
    pc = "done" =>
        /\ result.max_drawdown.kind = "value"
        /\ 0 <= result.max_drawdown.num
        /\ result.max_drawdown.num <= result.max_drawdown.den

(* C22: max_drawdown is 0 whenever the equity samples are non-decreasing,  *)
(* and otherwise the maximum over the samples of (running peak - sample) / *)
(* running peak.                                                           *)
C22_DrawdownFromRunningPeak ==
    pc = "done" =>
        /\ NonDecreasing => result.max_drawdown = Zero
        /\ ~NonDecreasing =>
              /\ \E i \in 1..Len(result.equity_curve) :
                    result.max_drawdown = DeclineAt(i)
              /\ \A i \in 1..Len(result.equity_curve) :
                    ~FracLess(result.max_drawdown, DeclineAt(i))

\* a run whose equity rose above its first sample and then fell
C22_Witness ==
    /\ pc = "done"
    /\ result.max_drawdown # Zero
    /\ \E i, j \in 1..Len(result.equity_curve) :
          /\ i < j
          /\ SampleOf(i) > SampleOf(1)
          /\ SampleOf(j) < SampleOf(i)
          /\ result.max_drawdown = DeclineAt(j)

---------------------------------------------------------------------------
(* Scenario A (C23), under SpecScenario.                                   *)

\* the scenario is like Scenario A: a flat price, funding above the threshold
\* in the first two buckets and below minus the threshold in the third
LikeScenarioA ==
    LET points == historical_data[1].points
    IN  /\ points[1].funding_rate > funding_threshold
        /\ points[2].funding_rate > funding_threshold
        /\ points[3].funding_rate < -funding_threshold
        /\ points[2].mark_price = points[1].mark_price
        /\ points[3].mark_price = points[1].mark_price

\* the course of a scenario like Scenario A: LongSpotShortPerp is opened in
\* bucket 1, collects funding in bucket 2 and is closed in bucket 3, on the
\* flip of the signal, with a price PnL of 0
ScenarioCourse ==
    LET engine == replay.first.engine
        points == historical_data[1].points
        position == engine.closed[1]
    IN  /\ engine.trades[1].action = "open"
        /\ engine.trades[1].timestamp = ScenarioTimes[1]
        /\ engine.trades[1].signal = LONG_SPOT_SHORT_PERP
        /\ engine.fundingLog[1].timestamp = ScenarioTimes[2]
        /\ engine.fundingLog[1].amount
              = TimesRate(Abs(position.perp_size) * position.entry_price,
                          points[2].funding_rate)
        /\ engine.fundingLog[1].amount > 0
        /\ engine.fundingLog[2].timestamp = ScenarioTimes[3]
        /\ engine.fundingLog[2].amount = 0
        /\ engine.trades[2].action = "close"
        /\ engine.trades[2].timestamp = ScenarioTimes[3]
        /\ position.signal = LONG_SPOT_SHORT_PERP
        /\ position.entry_time = ScenarioTimes[1]
        /\ position.exit_time = ScenarioTimes[3]
        /\ position.funding_collected = engine.fundingLog[1].amount
        /\ price_pnl(position, position.exit_price) = 0

\* the fee of one leg of a trade of the closed position at a price
LegFee(position, price) ==
    TruncDiv(Abs(position.size) * price * trading_fee, RateScale)

(* C23 (as stated): in Scenario A the engine opens LongSpotShortPerp in    *)
(* bucket 1, accrues funding in bucket 2 and closes the position in bucket *)
(* 3 on the signal flip; the closed position's price PnL is 0 and its pnl  *)
(* is the funding collected minus the fees of one open and one close, 4    *)
(* fee legs in total.                                                      *)
C23_PnlNetOfFourLegs ==
    (pc = "ran" /\ LikeScenarioA) =>
        LET position == replay.first.engine.closed[1]
        IN  /\ ScenarioCourse
            /\ position.pnl = position.funding_collected
                              - 2 * LegFee(position, position.entry_price)
                              - 2 * LegFee(position, position.exit_price)

(* C23 (amended): same course; the closed position's pnl is the funding    *)
(* collected (in bucket 2 only) minus the fee of the close, 2 fee legs;    *)
(* the 2 fee legs of the open are deducted from capital at the open and    *)
(* are not part of the position's pnl.                                     *)
C23_PnlNetOfCloseLegs ==
    (pc = "ran" /\ LikeScenarioA) =>
        LET position == replay.first.engine.closed[1]
        IN  /\ ScenarioCourse
            /\ position.pnl = position.funding_collected
                              - 2 * LegFee(position, position.exit_price)
            /\ replay.first.engine.feesPaid >=
                    2 * LegFee(position, position.entry_price)
                    + 2 * LegFee(position, position.exit_price)

\* Scenario A itself has been run
C23_Witness ==
    /\ pc = "ran"
    /\ historical_data = ScenarioA
    /\ initial_capital = 20000
    /\ LikeScenarioA
    /\ replay.first.engine.closed[1].pnl = -2

---------------------------------------------------------------------------
(* The Sharpe ratio (C26), under SpecScenario.                             *)

(* C26 (as stated): the Sharpe ratio of the result is 0 whenever the       *)
(* equity curve has fewer than two samples or the period returns have no   *)
(* volatility (a single return included), and computing it never fails.    *)
C26_SharpeNeverFails ==
    pc = "ran" =>
        LET curve == replay.first.result.equity_curve
            sharpe == replay.first.result.sharpe_ratio
        IN  /\ sharpe.kind # "ZeroDivisionError"
            /\ Len(curve) <= 2 => sharpe = Zero
            /\ (\A i \in 1..Len(curve) : curve[i][2] = curve[1][2]) => sharpe = Zero

---------------------------------------------------------------------------
(* Empty input (C24), under SpecReplay.                                    *)

(* C24: an empty input, either an empty map or a map whose sequences are   *)
(* all empty, yields a benign result without error: num_trades = 0,        *)
(* max_drawdown = 0, sharpe_ratio = 0, win_rate = 0, final_capital =       *)
(* initial_capital, and empty trade, position and equity collections.      *)
C24_EmptyInputBenign ==
    (pc \in {"again", "compared"} /\ flatten(historical_data) = <<>>) =>
        LET r == replay.first.result
        IN  /\ r.num_trades = 0
            /\ r.max_drawdown = Zero
            /\ r.sharpe_ratio = Zero
            /\ r.win_rate[1] = 0
            /\ r.final_capital = initial_capital
            /\ r.trades = <<>>
            /\ r.positions = <<>>
            /\ r.equity_curve = <<>>

\* a run on a map whose two sequences are both empty has returned its result
C24_Witness ==
    /\ pc = "again"
    /\ historical_data = HistoricalInput(<<>>, <<>>)
    /\ replay.first.result.num_trades = 0
    /\ replay.first.result.final_capital = initial_capital

---------------------------------------------------------------------------
(* Bucketing (C27), under SpecReplay.                                      *)

\* the multiple b of the interval with b <= t < b + interval
FloorBucket(t) ==
    CHOOSE b \in 0..t : b % interval_ms = 0 /\ b <= t /\ t < b + interval_ms

\* the points of an input map
InputPoints(hist) == {flatten(hist)[i] : i \in 1..Len(flatten(hist))}

\* the buckets a run must process, and the assets with a point in bucket b
BucketsDue(hist) == {FloorBucket(p.timestamp) : p \in InputPoints(hist)}
AssetsDue(hist, b) == {p.asset : p \in {q \in InputPoints(hist) : FloorBucket(q.timestamp) = b}}

\* what a run shows of its buckets: one equity sample per bucket processed,
\* in processing order, trades only on assets with a point in the bucket, an
\* entry in the first bucket, and the assets each bucket holds
Bucketed(r, hist) ==
    LET curve == r.result.equity_curve
        opened(b) == {r.result.trades[i].asset : i \in
                        {j \in 1..Len(r.result.trades) :
                            /\ r.result.trades[j].action = "open"
                            /\ r.result.trades[j].timestamp = b}}
    IN  /\ {curve[i][1] : i \in 1..Len(curve)} = BucketsDue(hist)
        /\ \A i, j \in 1..Len(curve) : i < j => curve[i][1] < curve[j][1]
        /\ \A i \in 1..Len(r.result.trades) :
              r.result.trades[i].asset \in AssetsDue(hist, r.result.trades[i].timestamp)
        /\ curve # <<>> => opened(curve[1][1]) # {}
        /\ \A b \in BucketsDue(hist) :
              KeySet(market_data_at(sort_by_time(flatten(hist)), b)) = AssetsDue(hist, b)

---------------------------------------------------------------------------
(* Several points of an asset in one bucket (C28), under SpecReplay.       *)

\* the point data_by_time[b] keeps for an asset, for a given input map
KeptPoint(hist, b, a) == Get(market_data_at(sort_by_time(flatten(hist)), b), a)

\* the points of an asset that fall in bucket b
PointsIn(hist, b, a) ==
    {p \in InputPoints(hist) : p.asset = a /\ FloorBucket(p.timestamp) = b}

(* C28 (as stated): when several points of the same asset fall in the same *)
(* bucket, the bucket keeps exactly one of them, the one with the greatest *)
(* timestamp, independently of the order of the points in the input        *)
(* sequence: the point kept and the run's trades are the same for the      *)
(* sequence given in the opposite order.                                   *)
C28_LatestPointKept ==
    pc = "permuted" =>
        /\ \A b \in BucketsDue(historical_data) :
           \A a \in AssetsDue(historical_data, b) :
              /\ KeptPoint(historical_data, b, a) \in PointsIn(historical_data, b, a)
              /\ \A p \in PointsIn(historical_data, b, a) :
                    p.timestamp <= KeptPoint(historical_data, b, a).timestamp
              /\ KeptPoint(points_reversed(historical_data), b, a)
                    = KeptPoint(historical_data, b, a)
        /\ replay.permuted.result.trades = replay.first.result.trades

---------------------------------------------------------------------------
(* Mark prices that are not positive (C25), under SpecIngest.              *)

(* C25 (as stated): any input point with a non-positive mark price is      *)
(* rejected at ingestion, before the replay loop starts: no position is    *)
(* ever opened, sized, updated or closed at a mark price <= 0.             *)
C25_NonPositivePriceRejected ==
    pc = "ingested" =>
        LET r == replay.first
        IN  /\ \A i \in 1..Len(r.result.trades) : r.result.trades[i].price > 0
            /\ \A i \in 1..Len(r.engine.closed) :
                  /\ r.engine.closed[i].entry_price > 0
                  /\ r.engine.closed[i].exit_price > 0

---------------------------------------------------------------------------
(* Dry-run mode (C29), under SpecLive.                                     *)

(* C29: with dry_run = True, no sequence of strategy iterations ever       *)
(* invokes an order-placing or leverage-changing client operation, and the *)
(* PositionManager's tracked positions never change.                       *)
C29_DryRunPlacesNothing ==
    dry_run =>
        /\ client_calls = <<>>
        /\ manager_positions = <<>>
        /\ \A i \in 1..Len(entry_log) : ~entry_log[i].called

\* a dry-run iteration has found an opportunity of sufficient size and come
\* to the point where a live strategy would enter
C29_Witness ==
    /\ dry_run
    /\ pc = "live"
    /\ iterations = MaxIterations
    /\ entry_log # <<>>

---------------------------------------------------------------------------
(* Failed leg orders (C30), under SpecLive.                                *)

(* C30 (as stated): PositionManager.open_position returns True and records *)
(* a tracked position only if both leg orders were placed successfully; if *)
(* either market order fails it returns False and the tracked positions    *)
(* are unchanged.                                                          *)
C30_OpenNeedsBothLegs ==
    \A i \in 1..Len(entry_log) :
        LET e == entry_log[i]
        IN  e.called =>
              /\ (e.returned \/ e.after # e.before) => (e.first_ok /\ e.second_ok)
              /\ (e.ordered /\ ~(e.first_ok /\ e.second_ok)) =>
                    (~e.returned /\ e.after = e.before)

---------------------------------------------------------------------------
(* Funding before the exit check (C31), under Spec.                        *)

(* C31: within the update phase the current bucket's funding is applied to *)
(* the position (funding_collected and capital) before the exit check, so  *)
(* the bucket in which a position closes still contributes its funding     *)
(* amount to that position's pnl.                                          *)
C31_FundingBeforeExit ==
    [][(pc = "update" /\ ClosedInStep) =>
        /\ FundingStep
        /\ LET a == LastFunding.asset
               before == Get(positions, a)
               done == closed'[Len(closed')]
               price == Get(market_data, a).mark_price
               fee == TruncDiv(Abs(before.size) * price * trading_fee * 2, RateScale)
               price_change == price - before.entry_price
           IN  /\ a = Head(todo)
               /\ done.asset = a
               /\ LastFunding.timestamp = ts
               /\ done.exit_time = ts
               /\ done.funding_collected = before.funding_collected + LastFunding.amount
               /\ done.pnl = before.funding_collected + LastFunding.amount
                             + (before.spot_size + before.perp_size) * price_change - fee
               /\ capital' = capital + LastFunding.amount + done.pnl
    ]_vars

\* a position has been closed by an update that first credited it a funding
\* amount other than zero
C31_Witness ==
    \E i \in 1..Len(fundingLog) : \E j \in 1..Len(closed) :
        /\ fundingLog[i].amount > 0
        /\ closed[j].asset = fundingLog[i].asset
        /\ closed[j].entry_time = fundingLog[i].entry_time
        /\ closed[j].exit_time = fundingLog[i].timestamp
        /\ closed[j].funding_collected >= fundingLog[i].amount

---------------------------------------------------------------------------
(* No funding in the bucket of the open (C32), under Spec.                 *)

\* the funding entries of the position of asset a opened at time e
AccrualsOf(a, e) ==
    {i \in 1..Len(fundingLog) : fundingLog[i].asset = a /\ fundingLog[i].entry_time = e}

(* C32: a position opened in a bucket's entry phase accrues no funding in  *)
(* that bucket: its funding_collected is 0 at that bucket's equity sample, *)
(* and its first accrual happens at the next bucket that contains a data   *)
(* point for its asset.                                                    *)
C32_NoFundingInOpenBucket ==
    /\ \A i \in 1..Len(fundingLog) : fundingLog[i].timestamp > fundingLog[i].entry_time
    /\ pc \in {"enter", "next"} =>
          /\ \A i \in 1..Len(positions) :
                positions[i].entry_time = ts =>
                    /\ positions[i].funding_collected = 0
                    /\ AccrualsOf(positions[i].asset, ts) = {}
          /\ \A i \in 1..Len(startPositions) :
                LET p == startPositions[i]
                IN  Has(market_data, p.asset) <=>
                        \E k \in AccrualsOf(p.asset, p.entry_time) :
                            fundingLog[k].timestamp = ts

\* the bucket after the open held no point of the asset, and the position
\* had its first accrual in a later bucket; at that bucket's equity sample a
\* position opened in it is still without funding
C32_Witness ==
    /\ pc = "next"
    /\ \E k \in 1..Len(fundingLog) :
          /\ fundingLog[k].timestamp >= fundingLog[k].entry_time + 2
          /\ \A j \in AccrualsOf(fundingLog[k].asset, fundingLog[k].entry_time) :
                fundingLog[j].timestamp >= fundingLog[k].timestamp
    /\ \E i \in 1..Len(positions) :
          positions[i].entry_time = ts /\ positions[i].funding_collected = 0

---------------------------------------------------------------------------
(* Close and re-open in one bucket (C33), under Spec.                      *)

\* the actions of the trades of asset a at the current bucket, in log order
TradesNow(a) ==
    LET now == SelectSeq(trades, LAMBDA t : t.asset = a /\ t.timestamp = ts)
    IN  [i \in 1..Len(now) |-> now[i].action]

\* the records closed by the update phase of the current bucket
ClosedNow == {i \in 1..Len(closed) : closed[i].exit_time = ts}

(* C33 (as stated): an asset whose position is closed in a bucket's update *)
(* phase is not re-opened in the same bucket's entry phase: within one     *)
(* bucket an asset has at most one trade, so a signal flip produces only a *)
(* close at that timestamp.                                                *)
C33_OneTradePerBucket ==
    pc \in {"update", "enter", "next"} =>
        \A a \in Assets : Len(TradesNow(a)) <= 1

(* C33 (amended): an asset whose position is closed in a bucket's update   *)
(* phase is a candidate again in that bucket's entry phase.  Closed for a  *)
(* flipped signal, it is re-opened at the same timestamp with the new      *)
(* signal unless the capacity is used up; closed for want of a signal, it  *)
(* is not re-opened.  Within one bucket's processing an asset has at most  *)
(* two trades, a close followed by an open.                                *)
C33_ReopenOnFlip ==
    pc \in {"update", "enter", "next"} =>
        /\ \A a \in Assets :
              TradesNow(a) \in {<<>>, <<"open">>, <<"close">>, <<"close", "open">>}
        /\ pc = "next" =>
              \A i \in ClosedNow :
                 LET a == closed[i].asset
                     signal == get_signal(Get(market_data, a).funding_rate)
                 IN  IF signal = NO_SIGNAL
                     THEN ~Has(positions, a) /\ TradesNow(a) = <<"close">>
                     ELSE /\ signal # closed[i].signal
                          /\ \/ /\ Has(positions, a)
                                /\ Get(positions, a).entry_time = ts
                                /\ Get(positions, a).signal = signal
                                /\ TradesNow(a) = <<"close", "open">>
                             \/ /\ ~Has(positions, a)
                                /\ ~can_open_position(Self)

\* a position closed on a flipped signal and its asset re-opened with the
\* opposite signal at the same timestamp
C33_Witness ==
    /\ pc = "next"
    /\ \E i \in ClosedNow :
          /\ Has(positions, closed[i].asset)
          /\ Get(positions, closed[i].asset).entry_time = ts
          /\ Get(positions, closed[i].asset).signal # closed[i].signal
          /\ TradesNow(closed[i].asset) = <<"close", "open">>

---------------------------------------------------------------------------
(* The trade log (C34), under Spec.                                        *)

\* the trades of asset a in a log, in log order
TradesOf(log, a) == SelectSeq(log, LAMBDA t : t.asset = a)

\* timestamps never decrease along the log; the trades of each asset go
\* open, close, open, ... from an open on, each close with the size of the
\* open before it
WellFormed(log) ==
    /\ \A i, j \in 1..Len(log) : i < j => log[i].timestamp <= log[j].timestamp
    /\ \A a \in Assets :
          LET own == TradesOf(log, a)
          IN  \A k \in 1..Len(own) :
                 /\ own[k].action = (IF k % 2 = 1 THEN "open" ELSE "close")
                 /\ k % 2 = 0 => own[k].size = own[k - 1].size

(* C34: the trade log is append-only with non-decreasing timestamps, and   *)
(* for each asset its trades strictly alternate open, close, open, ...     *)
(* starting with an open, each close carrying the size of the immediately  *)
(* preceding open of that asset.                                           *)
C34_TradeLogWellFormed ==
    [][/\ Len(trades') >= Len(trades)
       /\ SubSeq(trades', 1, Len(trades)) = trades
       /\ WellFormed(trades')
    ]_vars

\* a log in which an asset was opened, closed and opened again, with trades
\* of the other asset in it
C34_Witness ==
    \E a \in Assets :
        /\ Len(TradesOf(trades, a)) >= 3
        /\ \E b \in Assets \ {a} : Len(TradesOf(trades, b)) >= 2
        /\ \E i \in 1..Len(trades) : trades[i].timestamp < trades[Len(trades)].timestamp

---------------------------------------------------------------------------
(* A second run on the same engine (C35), under SpecScenario.              *)

(* C35 (as stated): every call of run() starts from capital =              *)
(* initial_capital with no open positions, an empty trade log and an empty *)
(* equity curve, so a second run() on the same Backtester instance with    *)
(* the same input returns the same result as the first.                    *)
C35_RerunSameResult ==
    pc = "reran" =>
        /\ replay.again.result.final_capital = replay.first.result.final_capital
        /\ replay.again.result.num_trades = replay.first.result.num_trades
        /\ replay.again.result.trades = replay.first.result.trades
        /\ replay.again.result.equity_curve = replay.first.result.equity_curve
        /\ replay.again.result = replay.first.result


\* ---------------------------------------------------------------------
\* C36: the notional of an opened position, size * entry_price, is
\* min(max_position_size_usd, 0.8 * capital before the open fee); it is
\* never more than max_position_size_usd and never more than 80% of the
\* capital at the time of the open.  The equality is stated where the
\* whole-number quantities of the model are exact (80% of the capital is
\* whole and the price divides the size in dollars); the two bounds are
\* stated there and for every capital that is not negative.
\* ---------------------------------------------------------------------
Notional(position) == position.size * position.entry_price

ExactSizing(cap, price) ==
    /\ (cap * 4) % 5 = 0
    /\ Min(max_position_size_usd, TruncDiv(cap * 4, 5)) % price = 0

C36_NotionalCapped ==
    [][(pc = "sizing" /\ OpenStep) =>
        LET trade == trades'[Len(trades')]
            position == Get(positions', trade.asset)
            bounded == /\ Notional(position) <= max_position_size_usd
                       /\ 5 * Notional(position) <= 4 * capital
        IN  /\ Has(positions', trade.asset)
            /\ position.entry_price = trade.price
            /\ ExactSizing(capital, trade.price) =>
                    /\ Notional(position)
                         = Min(max_position_size_usd, TruncDiv(capital * 4, 5))
                    /\ bounded
            /\ capital >= 0 => bounded
    ]_vars

\* a position opened on 6250 of capital: 80% of it, 5000, is below the cap
C36_Witness ==
    /\ pc = "sizing"
    /\ Len(trades) = 1
    /\ initial_capital = 6250
    /\ Has(positions, trades[1].asset)
    /\ Notional(Get(positions, trades[1].asset)) = 5000
    /\ 5000 < max_position_size_usd
    /\ capital = 6248



\* ---------------------------------------------------------------------
\* C37: when _manage_existing_positions finds a tracked position that is
\* safe and has no exit signal, the balance check completes, the remaining
\* positions are processed and _find_new_opportunities runs afterwards in
\* the same iteration.  A position tracked before the step and still
\* tracked after it is one that was not closed: the step found a safe
\* position without an exit signal.
\* ---------------------------------------------------------------------
KeptByManage ==
    \E asset \in KeySet(manager_positions) : Has(manager_positions', asset)

C37_ManageThenFind ==
    [][(pc = "manage" /\ KeptByManage) => pc' = "find"]_vars



\* ---------------------------------------------------------------------
\* The exit decision of the backtest and of the live strategy on one
\* held position and one funding reading
\* ---------------------------------------------------------------------

\* funding rates on both sides of both thresholds, and on them
ExitRates == -4 .. 4

\* mark prices; 0 is the reading get_funding_data rejects
ExitPrices == {0, 1, 2}

\* the reading of the one asset as HyperliquidClient reports it
ExitMarket(point) ==
    [a \in Range(LiveAssets) |->
        [funding_rate |-> point.funding_rate, mark_price |-> point.mark_price]]

\* a position held under either signal, and the next reading of its asset
ExitInit ==
    /\ pc = "exit"
    /\ NoStrategy
    /\ timeline = "exit"
    /\ replay = NoReplay
    /\ initial_capital \in InitialCapitals
    /\ capital = initial_capital
    /\ result = NoResult
    /\ historical_data = <<>>
    /\ \E asset \in Range(LiveAssets), funding_rate \in ExitRates,
          price \in ExitPrices,
          signal \in {LONG_SPOT_SHORT_PERP, SHORT_SPOT_LONG_PERP} :
            /\ market_data = <<[asset |-> asset, funding_rate |-> funding_rate,
                                mark_price |-> price]>>
            /\ positions = <<new_position(asset, 0, PointFor(asset, signal, 1),
                                          signal, open_size_usd(initial_capital))>>
    /\ trades = <<>>
    /\ equity_curve = <<>>
    /\ ts = 0
    /\ todo = <<>>
    /\ opportunities = <<>>
    /\ oi = 1
    /\ closed = <<>>
    /\ fundingLog = <<>>
    /\ feesPaid = 0
    /\ startPositions = positions

\* the decision of _update_position and that of should_exit_position
ExitDecide ==
    /\ pc = "exit"
    /\ UNCHANGED liveVars
    /\ LET point == market_data[1]
           position == Get(positions, point.asset)
       IN  todo' = <<should_exit(position, point.funding_rate),
                     should_exit_position(ExitMarket(point), point.asset,
                                          position.signal)>>
    /\ pc' = "decided"
    /\ UNCHANGED <<timeline, historical_data, replay, initial_capital, capital,
                   positions, trades, equity_curve, ts, market_data, opportunities,
                   oi, result, closed, fundingLog, feesPaid, startPositions>>

SpecExit == ExitInit /\ [][ExitDecide]_vars

\* ---------------------------------------------------------------------
\* C38: for every funding rate and held signal, the backtester's exit
\* decision (the signal of Backtester._get_signal differs from the held
\* one, or is NoSignal) equals FundingMonitor.should_exit_position
\* whenever funding data is available.  Rates are counted in units in
\* which the threshold is funding_threshold.
\* ---------------------------------------------------------------------
C38_SameExitDecision ==
    (pc = "decided" /\ market_data[1].mark_price # 0) => todo[1] = todo[2]

\* the funding flipped against the held signal: both sides exit
C38_Witness ==
    /\ pc = "decided"
    /\ market_data[1].mark_price # 0
    /\ get_signal(market_data[1].funding_rate)
         \notin {NO_SIGNAL, Get(positions, market_data[1].asset).signal}
    /\ todo = <<TRUE, TRUE>>



\* ---------------------------------------------------------------------
\* RiskManager.calculate_safe_position_size on an account value, a
\* desired size and a leverage
\* ---------------------------------------------------------------------

\* account values as check_account_risk reports them (0 also when it
\* fails); each has a whole 80%
AccountValues == {-1000, 0, 500, 1000, 5000, 12500}

DesiredSizes == {100, 1000, 1700, 5000, 10000}

Leverages == {1, 2, 3, 5}

\* RiskManager.calculate_safe_position_size; margin_required, which is
\* desired_size_usd / leverage, is compared after multiplying both sides
\* by 5 * leverage
calculate_safe_position_size(account_value, desired_size_usd, leverage) ==
    IF account_value = 0 THEN 0
    ELSE LET max_size_by_account == TruncDiv(account_value * 4, 5)
         IN  IF desired_size_usd * 5 > account_value * 4 * leverage
             THEN TruncDiv(account_value * 4 * leverage, 5)
             ELSE Min(desired_size_usd, max_size_by_account)

\* an account and the arguments of one call: initial_capital is the
\* account value, todo holds desired_size_usd and leverage
SafeSizeInit ==
    /\ pc = "risk"
    /\ NoStrategy
    /\ timeline = "risk"
    /\ replay = NoReplay
    /\ initial_capital \in AccountValues
    /\ capital = initial_capital
    /\ result = NoResult
    /\ historical_data = <<>>
    /\ positions = <<>>
    /\ trades = <<>>
    /\ equity_curve = <<>>
    /\ ts = 0
    /\ market_data = <<>>
    /\ \E desired_size_usd \in DesiredSizes, leverage \in Leverages :
            todo = <<desired_size_usd, leverage>>
    /\ opportunities = <<>>
    /\ oi = 1
    /\ closed = <<>>
    /\ fundingLog = <<>>
    /\ feesPaid = 0
    /\ startPositions = <<>>

\* the call; opportunities receives the returned size
SafeSizeCall ==
    /\ pc = "risk"
    /\ UNCHANGED liveVars
    /\ opportunities' = <<calculate_safe_position_size(initial_capital,
                                                       todo[1], todo[2])>>
    /\ pc' = "sized"
    /\ UNCHANGED <<timeline, historical_data, replay, initial_capital, capital,
                   positions, trades, equity_curve, ts, market_data, todo,
                   oi, result, closed, fundingLog, feesPaid, startPositions>>

SpecSafeSize == SafeSizeInit /\ [][SafeSizeCall]_vars

\* ---------------------------------------------------------------------
\* C39: calculate_safe_position_size never returns more than 80% of the
\* account value, for every desired size and every leverage >= 1.
\* ---------------------------------------------------------------------
C39_AtMostEightyPercent ==
    (pc = "sized" /\ todo[2] >= 1) => 5 * opportunities[1] <= 4 * initial_capital


====
